---- MODULE Spec2Model ----
(***************************************************************************)
(* A model of the local control plane of the AirCon bridge: the per-device *)
(* command queue and its emission (Device.queue_command, queue_status,     *)
(* command_handler), the inbound update path (property_update_handler,     *)
(* is_update_valid, update_property), the key exchange                     *)
(* (key_exchange_handler, Config._update_encryption), the routing of a     *)
(* write through the register (AcDevice.queue_command,                     *)
(* _convert_to_control_value), the notifier (Notifier.start,               *)
(* _perform_request) and a server with several devices.                    *)
(***************************************************************************)
EXTENDS Integers, Sequences, FiniteSets, TLC

VARIABLES
  commands_queue,    \* Device.commands_queue: the heap list of the PriorityQueue
  commands_seq_no,   \* Device._commands_seq_no
  updates_seq_no,    \* Device._updates_seq_no (the high-water mark)
  properties,        \* Device._properties: the mirror, name -> value
  next_command_id,   \* Device._next_command_id
  fetch,             \* the commands.json handlers: h -> [pc, seq_no, item]
  frames,            \* the replies written by command_handler, in write order
  allocs,            \* the seq_nos handed out by get_command_seq_no, in order
  enq_count,         \* the number of put_nowait calls so far
  caller,            \* the thread inside queue_command / queue_status
  upd,               \* the property-update handler: its request and position
  lan_config,        \* Config.lan_config
  app,               \* Config.app, the Encryption context of outgoing frames
  dev,               \* Config.dev, the Encryption context of incoming frames
  mono,              \* the monotonic clock read by time.monotonic_ns()
  kx,                \* the last key exchange: its request and its reply
  ntf,               \* the Notifier: its loop and its configurations
  fleet,             \* the devices of a server that is configured with several
  reg,               \* a register and what clear_up_change_flags makes of it
  wire,              \* one frame on the wire: its payload, its keys, its reading
  race,              \* update handlers that run side by side, and what they notified
  swap,              \* a key exchange step by step, and a frame made meanwhile
  wake,              \* the notifier's loop beside the enqueues that notify it
  feed               \* the queue of a device that is written to and fetched from for ever

vars == <<commands_queue, commands_seq_no, updates_seq_no, properties,
          next_command_id, fetch, frames, allocs, enq_count,
          caller, upd, lan_config, app, dev, mono, kx, ntf, fleet, reg, wire, race, swap,
          wake, feed>>

device_vars == <<commands_queue, commands_seq_no, updates_seq_no, properties,
                 next_command_id>>
queue_vars == <<fetch, frames, allocs, enq_count, caller>>
key_vars == <<lan_config, app, dev, mono, kx>>
fleet_vars == <<ntf, fleet, reg, wire, race, swap, wake, feed>>

----------------------------------------------------------------------------
(* Bounds of the model. *)

MaxClock == 1        \* readings of the wall clock are 0..MaxClock
MaxFetches == 2      \* commands.json requests handled
MaxEnqueues == 3     \* put_nowait calls
MaxCommands == 1     \* put_nowait calls while the handlers run side by side
MaxStatusFields == 2 \* properties that one queue_status call asks for
MaxSeqNo == 3        \* seq_no values carried by inbound updates are 0..MaxSeqNo
MaxMono == 5         \* readings of the monotonic clock are 0..MaxMono
NumHandlers == 2     \* commands.json requests in flight at once
NumDevices == 2      \* devices the server is configured with
MaxFailureCnt == 7   \* failure_cnt is counted up to here and then kept
MaxFleetPuts == 2    \* put_nowait calls of a server with several devices
MaxFleetSeqNo == 1   \* seq_no values of the updates to such a server
MaxExchanges == 2    \* key exchanges handled

Handlers == 1..NumHandlers

None == "None"

\* An integer register is the set of the positions of its 1 bits (Python
\* integers are unbounded); the mirror's None is the set {-1}, which is no
\* register.
NoneReg == {-1}
\* Python's truth value of a register: None and 0 are false.
Truthy(control) == control # NoneReg /\ control # {}

----------------------------------------------------------------------------
(* The property schema of AcProperties, restricted to the control-mapped   *)
(* properties, the two cascade targets and one read-only sensor.           *)

Fields ==
  <<"f_temp_in", "t_control_value", "t_eco", "t_fan_leftright", "t_fan_mute",
    "t_fan_power", "t_fan_speed", "t_power", "t_sleep", "t_temp", "t_temptype",
    "t_temp_eight", "t_temp_heatcold", "t_work_mode">>

PropNames == {Fields[i] : i \in 1..Len(Fields)}

\* Properties.get_type: the declared type of a field.
get_type(name) ==
  CASE name = "f_temp_in" -> "float"
    [] name = "t_control_value" -> "int"
    [] name = "t_eco" -> "Economy"
    [] name = "t_fan_leftright" -> "AirFlow"
    [] name = "t_fan_mute" -> "Quiet"
    [] name = "t_fan_power" -> "AirFlow"
    [] name = "t_fan_speed" -> "FanSpeed"
    [] name = "t_power" -> "Power"
    [] name = "t_sleep" -> "SleepMode"
    [] name = "t_temp" -> "int"
    [] name = "t_temptype" -> "TemperatureUnit"
    [] name = "t_temp_eight" -> "EightHeat"
    [] name = "t_temp_heatcold" -> "FastColdHeat"
    [] name = "t_work_mode" -> "AcWorkMode"

\* Properties.get_base_type: the wire tag of a field.
get_base_type(name) ==
  CASE name = "f_temp_in" -> "decimal"
    [] name \in {"t_control_value", "t_fan_speed", "t_sleep", "t_temp",
                 "t_work_mode"} -> "integer"
    [] OTHER -> "boolean"

\* A test that takes every property for writable.
get_read_only_never(name) == FALSE
\* Properties.get_read_only: the f_ sensors are read-only.
get_read_only(name) == name = "f_temp_in"

\* The members of the enum types, as (name, value) pairs.
EnumMembers(type) ==
  CASE type = "FanSpeed" ->
         {<<"AUTO", 0>>, <<"LOWER", 5>>, <<"LOW", 6>>, <<"MEDIUM", 7>>,
          <<"HIGH", 8>>, <<"HIGHER", 9>>}
    [] type = "SleepMode" ->
         {<<"STOP", 0>>, <<"ONE", 1>>, <<"TWO", 2>>, <<"THREE", 3>>, <<"FOUR", 4>>}
    [] type = "AcWorkMode" ->
         {<<"FAN", 0>>, <<"HEAT", 1>>, <<"COOL", 2>>, <<"DRY", 3>>, <<"AUTO", 4>>}
    [] type = "TemperatureUnit" -> {<<"CELSIUS", 0>>, <<"FAHRENHEIT", 1>>}
    [] type \in {"Economy", "AirFlow", "Quiet", "Power", "EightHeat",
                 "FastColdHeat"} -> {<<"OFF", 0>>, <<"ON", 1>>}
    [] OTHER -> {}

IsEnum(type) == EnumMembers(type) # {}

\* data_type[name]: defined when the enum has a member of that name.
HasEnumName(type, n) == \E m \in EnumMembers(type) : m[1] = n
\* data_type(value): defined when the enum has a member of that value.
HasEnumValue(type, v) == \E m \in EnumMembers(type) : m[2] = v
EnumValueOf(type, n) == (CHOOSE m \in EnumMembers(type) : m[1] = n)[2]
EnumNameOf(type, v) == (CHOOSE m \in EnumMembers(type) : m[2] = v)[1]

\* The defaults of the AcProperties dataclass (a float is kept in tenths).
DefaultProperties ==
  [n \in PropNames |->
    CASE n = "f_temp_in" -> 810
      [] n = "t_control_value" -> NoneReg
      [] n = "t_fan_speed" -> "AUTO"
      [] n = "t_power" -> "ON"
      [] n = "t_sleep" -> "STOP"
      [] n = "t_temp" -> 81
      [] n = "t_temptype" -> "FAHRENHEIT"
      [] n = "t_work_mode" -> "AUTO"
      [] OTHER -> "OFF"]

----------------------------------------------------------------------------
(* Bit arithmetic on registers.                                            *)

RECURSIVE Bits(_)
\* The 1 bits of a natural number.
Bits(n) ==
  IF n = 0 THEN {}
  ELSE (IF n % 2 = 1 THEN {0} ELSE {}) \cup {b + 1 : b \in Bits(n \div 2)}

RECURSIVE Val(_)
\* The number a set of bit positions stands for.
Val(S) ==
  IF S = {} THEN 0
  ELSE LET b == CHOOSE x \in S : TRUE IN 2^b + Val(S \ {b})

Shl(S, k) == {b + k : b \in S}
Shr(S, k) == {b - k : b \in {x \in S : x >= k}}
\* (control >> shift) & mask, as a number.
Field(control, shift, mask) == Val(Shr(control, shift) \cap Bits(mask))
\* (control & ~(mask << shift)) | (((int_val << 1) | 1) << shift)
SetField(control, shift, mask, int_val) ==
  (control \ Shl(Bits(mask), shift)) \cup Shl(Shl(Bits(int_val), 1) \cup {0}, shift)

(* control_value_utils: the decoders give the enum member, when there is one. *)

\* Enum(int_val): the member of that value; the ValueError of a value that
\* has no member is the result Invalid.
Invalid == "ValueError"
EnumOf(type, int_val) ==
  IF HasEnumValue(type, int_val) THEN EnumNameOf(type, int_val) ELSE Invalid

get_fan_speed_value(control) == EnumOf("FanSpeed", Field(control, 1, 15))
set_fan_speed_value(control, value) ==
  SetField(control, 0, 31, EnumValueOf("FanSpeed", value))
get_power_value(control) == EnumNameOf("Power", Field(control, 6, 1))
set_power_value(control, value) ==
  SetField(control, 5, 3, EnumValueOf("Power", value))
get_work_mode_value(control) == EnumOf("AcWorkMode", Field(control, 9, 7))
set_work_mode_value(control, value) ==
  SetField(control, 8, 15, EnumValueOf("AcWorkMode", value))
get_heat_cold_value(control) == EnumNameOf("FastColdHeat", Field(control, 13, 1))
set_heat_cold_value(control, value) ==
  SetField(control, 12, 3, EnumValueOf("FastColdHeat", value))
get_eco_value(control) == EnumNameOf("Economy", Field(control, 15, 1))
set_eco_value(control, value) ==
  SetField(control, 14, 3, EnumValueOf("Economy", value))
get_temp_value(control) == Field(control, 17, 63)
set_temp_value(control, value) == SetField(control, 16, 127, value)
get_fan_power_value(control) == EnumNameOf("AirFlow", Field(control, 25, 1))
set_fan_power_value(control, value) ==
  SetField(control, 24, 3, EnumValueOf("AirFlow", value))
get_fan_lr_value(control) == EnumNameOf("AirFlow", Field(control, 27, 1))
set_fan_lr_value(control, value) ==
  SetField(control, 26, 3, EnumValueOf("AirFlow", value))
get_fan_mute_value(control) == EnumNameOf("Quiet", Field(control, 29, 1))
set_fan_mute_value(control, value) ==
  SetField(control, 28, 3, EnumValueOf("Quiet", value))
get_temptype_value(control) == EnumNameOf("TemperatureUnit", Field(control, 31, 1))
set_temptype_value(control, value) ==
  SetField(control, 30, 3, EnumValueOf("TemperatureUnit", value))

\* The change-flag bits of the register.
ChangeFlags == {0, 5, 8, 12, 14, 16, 24, 26, 28, 30}
\* A function that leaves the register as it is.
clear_up_nothing(control) == control
\* control_value.clear_up_change_flags: zero every change flag. None stays
\* None (the callers test the result for truth).
clear_up_change_flags(control) ==
  IF control = NoneReg THEN NoneReg ELSE control \ ChangeFlags

----------------------------------------------------------------------------
(* The command queue: queue.PriorityQueue keeps a list ordered by heapq,   *)
(* which compares Command objects on (priority, timestamp) only.           *)

\* A comparison on the timestamp alone.
CommandLessByTime(a, b) == a.timestamp < b.timestamp
\* Command.__lt__ of the dataclass(order=True): command and updater do not
\* take part in the comparison.
CommandLess(a, b) ==
  \/ a.priority < b.priority
  \/ a.priority = b.priority /\ a.timestamp < b.timestamp

\* heap[i] of a 0-based Python list.
At(heap, i) == heap[i + 1]
Put(heap, i, x) == [heap EXCEPT ![i + 1] = x]

RECURSIVE SiftDownFrom(_, _, _, _)
\* The loop of heapq._siftdown: move newitem up from pos while it is less
\* than its parent.
SiftDownFrom(heap, startpos, pos, newitem) ==
  IF pos > startpos
  THEN LET parentpos == (pos - 1) \div 2
           parent == At(heap, parentpos)
       IN IF CommandLess(newitem, parent)
          THEN SiftDownFrom(Put(heap, pos, parent), startpos, parentpos, newitem)
          ELSE Put(heap, pos, newitem)
  ELSE Put(heap, pos, newitem)

\* heapq._siftdown(heap, startpos, pos)
SiftDown(heap, startpos, pos) == SiftDownFrom(heap, startpos, pos, At(heap, pos))

RECURSIVE SiftUpFrom(_, _, _, _)
\* The loop of heapq._siftup: bubble the smaller child up until a leaf is
\* hit, then sift newitem down from there. The right child is taken
\* whenever the left one is not less than it.
SiftUpFrom(heap, startpos, pos, newitem) ==
  LET endpos == Len(heap)
      leftpos == 2 * pos + 1
      rightpos == leftpos + 1
      childpos == IF rightpos < endpos
                     /\ ~CommandLess(At(heap, leftpos), At(heap, rightpos))
                  THEN rightpos ELSE leftpos
  IN IF leftpos < endpos
     THEN SiftUpFrom(Put(heap, pos, At(heap, childpos)), startpos, childpos, newitem)
     ELSE SiftDown(Put(heap, pos, newitem), startpos, pos)

\* heapq._siftup(heap, pos)
SiftUp(heap, pos) == SiftUpFrom(heap, pos, pos, At(heap, pos))

\* heapq.heappush(heap, item)
heappush(heap, item) == SiftDown(Append(heap, item), 0, Len(heap))

\* heapq.heappop(heap): the item returned, and the heap left.
heappop_item(heap) == At(heap, 0)
\* A get that leaves the entry where it was.
heappop_kept(heap) == heap
heappop_rest(heap) ==
  LET lastelt == heap[Len(heap)]
      rest == SubSeq(heap, 1, Len(heap) - 1)
  IN IF rest = <<>> THEN rest ELSE SiftUp(Put(rest, 0, lastelt), 0)

----------------------------------------------------------------------------
(* The mirror: Device.update_property and the AC override.                 *)

\* The sub-fields of a register in the order _update_controlled_properties
\* writes them; ok is FALSE where the decoder raises.
DecodedFields(control) ==
  LET enum(n, v) == [name |-> n, value |-> v, ok |-> v # Invalid]
  IN << enum("t_power", get_power_value(control)),
        enum("t_fan_speed", get_fan_speed_value(control)),
        enum("t_work_mode", get_work_mode_value(control)),
        enum("t_temp_heatcold", get_heat_cold_value(control)),
        enum("t_eco", get_eco_value(control)),
        [name |-> "t_temp", value |-> get_temp_value(control), ok |-> TRUE],
        enum("t_fan_power", get_fan_power_value(control)),
        enum("t_fan_leftright", get_fan_lr_value(control)),
        enum("t_fan_mute", get_fan_mute_value(control)),
        enum("t_temptype", get_temptype_value(control)) >>

\* AcDevice.get_power and get_work_mode: the register when it is true, the
\* named property otherwise.
get_power(props) ==
  IF Truthy(props["t_control_value"])
  THEN get_power_value(props["t_control_value"]) ELSE props["t_power"]
get_work_mode(props) ==
  IF Truthy(props["t_control_value"])
  THEN get_work_mode_value(props["t_control_value"]) ELSE props["t_work_mode"]

\* AcDevice.update_property of t_power reads get_work_mode() for its second
\* notification, unless the value is OFF: the decoder may raise there.
PowerNoteRaises(props, name, value) ==
  name = "t_power" /\ value # "OFF" /\ get_work_mode(props) = Invalid

RECURSIVE WriteDecoded(_, _)
\* The writes of _update_controlled_properties, up to the first decoder
\* that raises.
WriteDecoded(props, decoded) ==
  IF decoded = <<>> \/ ~Head(decoded).ok THEN props
  ELSE LET written == [props EXCEPT ![Head(decoded).name] = Head(decoded).value]
       IN IF PowerNoteRaises(written, Head(decoded).name, Head(decoded).value)
          THEN written
          ELSE WriteDecoded(written, Tail(decoded))

\* The notifications of AcDevice.update_property(name, value) for a named
\* property, on the mirror after the write: that of the property, with
\* 'off' for a work mode while get_power() is OFF, and for t_power a second
\* one of t_work_mode. power is what get_power() gives at that time.
NotesOfNamed(props, name, value) ==
  LET note(n, v) == [name |-> n, value |-> v, power |-> get_power(props)]
  IN <<note(name, IF name = "t_work_mode" /\ get_power(props) = "OFF"
                  THEN "off" ELSE value)>>
     \o (IF name # "t_power" THEN <<>>
         ELSE IF value = "OFF" THEN <<note("t_work_mode", "off")>>
         ELSE IF get_work_mode(props) = Invalid THEN <<note(Invalid, Invalid)>>
         ELSE <<note("t_work_mode", get_work_mode(props))>>)

RECURSIVE NotesOfDecoded(_, _)
\* The notifications of _update_controlled_properties, up to the first
\* ValueError.
NotesOfDecoded(props, decoded) ==
  IF decoded = <<>> THEN <<>>
  ELSE IF ~Head(decoded).ok THEN <<[name |-> Invalid, value |-> Invalid,
                                    power |-> get_power(props)]>>
  ELSE LET written == [props EXCEPT ![Head(decoded).name] = Head(decoded).value]
           notes == NotesOfNamed(written, Head(decoded).name, Head(decoded).value)
       IN IF PowerNoteRaises(written, Head(decoded).name, Head(decoded).value)
          THEN notes
          ELSE notes \o NotesOfDecoded(written, Tail(decoded))

\* AcDevice._update_controlled_properties
update_controlled_properties(props, control) ==
  WriteDecoded(props, DecodedFields(control))

\* An update_property that writes nothing.
update_property_skipped(props, name, value) == props
\* Device.update_property: the mirror after update_property(name, value).
update_property(props, name, value) ==
  IF value # props[name]
  THEN LET written == [props EXCEPT ![name] = value]
       IN IF name = "t_control_value"
          THEN update_controlled_properties(written, value)
          ELSE written
  ELSE props

\* The notifications of AcDevice.update_property(name, value) on the
\* mirror props: for a register those of its sub-fields and then, when none
\* raised, its own.
Notified(props, name, value) ==
  IF name # "t_control_value"
  THEN NotesOfNamed([props EXCEPT ![name] = value], name, value)
  ELSE LET written == [props EXCEPT ![name] = value]
           nested == IF value # props[name]
                     THEN NotesOfDecoded(written, DecodedFields(value))
                     ELSE <<>>
       IN IF nested # <<>> /\ nested[Len(nested)].name = Invalid THEN nested
          ELSE nested \o <<[name |-> name, value |-> value,
                            power |-> get_power(update_property(props, name, value))]>>

----------------------------------------------------------------------------
(* Device.queue_command and the AC override.                               *)

\* The values a caller passes for an int property, and what int() or
\* round(float()) make of them; "abc" raises.
IntInputs == {"22", "75.6", "abc"}
ParsesAsInt(value) == value \in {"22", "75.6"}
ParseInt(value) == CASE value = "22" -> 22 [] value = "75.6" -> 76

\* float(value) of the wire strings, in tenths.
ParsesAsFloat(value) == value \in {"75.0", "81.0"}
ParseFloat(value) == CASE value = "75.0" -> 750 [] value = "81.0" -> 810

Raise == [kind |-> "raise"]
\* What one call enqueues: the property and value of the command, the
\* value its updater writes, and the write the caller asked for.
PutOf(name, data_value, typed_value, asked) ==
  [kind |-> "put", name |-> name, data_value |-> data_value,
   typed_value |-> typed_value, asked |-> asked]

\* The set_* methods of AcDevice, reached from _convert_to_control_value:
\* the register a write of one sub-field enqueues.
set_work_mode(control, setting) ==
  set_work_mode_value(
    IF get_power_value(control) = "OFF" THEN set_power_value(control, "ON")
    ELSE control, setting)

SetSubField(name, control, setting) ==
  CASE name = "t_power" -> set_power_value(control, setting)
    [] name = "t_fan_speed" -> set_fan_speed_value(control, setting)
    [] name = "t_temp_heatcold" -> set_heat_cold_value(control, setting)
    [] name = "t_eco" -> set_eco_value(control, setting)
    [] name = "t_temp" -> set_temp_value(control, setting)
    [] name = "t_fan_power" -> set_fan_power_value(control, setting)
    [] name = "t_fan_leftright" -> set_fan_lr_value(control, setting)
    [] name = "t_fan_mute" -> set_fan_mute_value(control, setting)
    [] name = "t_temptype" -> set_temptype_value(control, setting)

ControlMapped ==
  {"t_power", "t_fan_speed", "t_work_mode", "t_temp_heatcold", "t_eco",
   "t_temp", "t_fan_power", "t_fan_leftright", "t_fan_mute", "t_temptype"}

\* AcDevice._convert_to_control_value: the t_control_value command a write
\* is turned into. A register that holds nothing but change flags is false
\* once they are cleared, and the else branch of the setter then calls
\* queue_command again, which raises.
convert_to_control_value(props, name, value) ==
  LET control == props["t_control_value"]
      cleared == clear_up_change_flags(control)
      asked == [name |-> name, value |-> value]
  IN CASE name = "t_work_mode" ->
            PutOf("t_control_value", set_work_mode(control, value),
                  set_work_mode(control, value), asked)
       [] name \in ControlMapped \ {"t_work_mode"} ->
            IF Truthy(cleared)
            THEN PutOf("t_control_value", SetSubField(name, cleared, value),
                       SetSubField(name, cleared, value), asked)
            ELSE Raise
       [] OTHER -> Raise

\* Device.queue_command(name, value) up to the put: what it enqueues, or
\* that it raises.
queue_command(props, name, value) ==
  LET data_type == get_type(name)
  IN IF get_read_only(name) THEN Raise
     ELSE IF IsEnum(data_type) /\ ~HasEnumName(data_type, value) THEN Raise
     ELSE IF data_type = "int" /\ ~ParsesAsInt(value) THEN Raise
     ELSE IF data_type = "float" /\ ~ParsesAsFloat(value) THEN Raise
     ELSE LET data_value == IF IsEnum(data_type) THEN value
                            ELSE IF data_type = "float" THEN ParseFloat(value)
                            ELSE IF name = "t_control_value"
                                 THEN Bits(ParseInt(value))
                                 ELSE ParseInt(value)
          IN IF name # "t_control_value" /\ Truthy(props["t_control_value"])
             THEN convert_to_control_value(props, name, data_value)
             ELSE PutOf(name,
                        IF IsEnum(data_type) THEN EnumValueOf(data_type, data_value)
                        ELSE data_value,
                        data_value,
                        [name |-> name, value |-> data_value])

\* AcDevice.queue_command: the calls of Device.queue_command it makes, in
\* order.
ac_queue_command(name, value) ==
  LET set(n, v) == [kind |-> "set", name |-> n, value |-> v]
  IN (IF name = "t_work_mode" /\ value # "OFF"
      THEN <<set("t_power", "ON")>> ELSE <<>>)
     \o <<set(IF name = "t_work_mode" /\ value = "OFF" THEN "t_power" ELSE name,
              value)>>
     \o (IF name = "t_temp_heatcold" /\ value = "ON"
         THEN <<set("t_fan_speed", "AUTO"), set("t_fan_mute", "OFF"),
                set("t_sleep", "STOP"), set("t_temp_eight", "OFF")>>
         ELSE <<>>)

----------------------------------------------------------------------------
(* The threads that enqueue: a caller of queue_command (the HTTP or MQTT   *)
(* side) and the status thread's queue_status. Each put_nowait is one      *)
(* step; the other threads run between the puts of one call.               *)

NoUpdater == [name |-> None, value |-> None]
\* The thread of the callers: the call in progress and the Device calls it
\* has still to make; name, value and raised tell the request of the last
\* call of AcDevice.queue_command, whether it raised, and the status that
\* queue_command_handler answered.
CallerIdle == [op |-> "idle", pending |-> <<>>, name |-> None, value |-> None,
               raised |-> FALSE, status |-> 0]

\* queue_command_handler: 400 when queue_command raises, 200 once it has
\* returned; nothing is answered while it runs.
CommandStatus(raised, returned) ==
  IF raised THEN 400 ELSE IF returned THEN 200 ELSE 0

\* The requests the callers make: a write of the power, of the temperature,
\* and of a read-only sensor.
QueueInputs == {<<"t_power", "OFF">>, <<"t_temp", "22">>, <<"f_temp_in", "75.0">>}

\* time.time_ns(): the readings of the wall clock. The clock is not
\* monotonic (it follows the adjustments of the system time) and two calls
\* may read the same value, so a reading is any of these.
ClockReadings == 0..MaxClock

\* Device._build_command and the Command that queue_command puts: priority
\* 10, stamped with time.time_ns(). The id of the property object is random;
\* it is the number of the put here, which tells the entries apart.
SetCommand(put, now) ==
  [priority |-> 10, timestamp |-> now,
   command |-> [kind |-> "properties", name |-> put.name, value |-> put.data_value,
                id |-> enq_count],
   updater |-> [name |-> put.name, value |-> put.typed_value],
   asked |-> put.asked]

\* The Command that queue_status puts for one field: priority 100.
StatusCommand(name, now) ==
  [priority |-> 100, timestamp |-> now,
   command |-> [kind |-> "cmds", name |-> name, value |-> next_command_id,
                id |-> enq_count],
   updater |-> NoUpdater, asked |-> NoUpdater]

\* One call of Device.queue_command or one iteration of queue_status, for
\* the head of the caller's pending list.
CallerStep(pending, call) ==
  LET item == Head(pending)
      res == queue_command(properties, item.name, item.value)
      rest == Tail(pending)
      after(op, left, raised) ==
        [op |-> op, pending |-> left, name |-> call.name, value |-> call.value,
         raised |-> raised,
         status |-> IF call.name = None THEN 0
                    ELSE CommandStatus(raised, op = "idle")]
  IN IF item.kind = "set" /\ res.kind = "raise"
     THEN /\ caller' = after("idle", <<>>, TRUE)
          /\ UNCHANGED <<commands_queue, enq_count, next_command_id>>
     ELSE /\ \E time_ns \in ClockReadings :
               commands_queue' =
                 heappush(commands_queue,
                          IF item.kind = "set" THEN SetCommand(res, time_ns)
                          ELSE StatusCommand(item.name, time_ns))
          /\ enq_count' = enq_count + 1
          /\ next_command_id' =
               IF item.kind = "get" THEN next_command_id + 1 ELSE next_command_id
          /\ caller' = IF rest = <<>> THEN after("idle", <<>>, FALSE)
                       ELSE after(call.op, rest, FALSE)

\* A caller enters AcDevice.queue_command(name, value), for one of the
\* given requests, and makes its first call of Device.queue_command.
QueueCommandOf(inputs) ==
  /\ caller.op = "idle"
  /\ \E input \in inputs :
       CallerStep(ac_queue_command(input[1], input[2]),
                  [op |-> "queue_command", name |-> input[1], value |-> input[2]])
  /\ UNCHANGED <<commands_seq_no, updates_seq_no, properties, fetch,
                 frames, allocs, upd>>
  /\ UNCHANGED key_vars
  /\ UNCHANGED fleet_vars

\* The status thread enters Device.queue_status and puts the command of the
\* first field.
QueueStatus ==
  /\ caller.op = "idle"
  /\ CallerStep([i \in 1..MaxStatusFields |-> [kind |-> "get", name |-> Fields[i]]],
                [op |-> "queue_status", name |-> None, value |-> None])
  /\ UNCHANGED <<commands_seq_no, updates_seq_no, properties, fetch,
                 frames, allocs, upd>>
  /\ UNCHANGED key_vars
  /\ UNCHANGED fleet_vars

\* The call in progress goes on to its next put.
CallerNext ==
  /\ caller.op # "idle"
  /\ CallerStep(caller.pending, caller)
  /\ UNCHANGED <<commands_seq_no, updates_seq_no, properties, fetch,
                 frames, allocs, upd>>
  /\ UNCHANGED key_vars
  /\ UNCHANGED fleet_vars

----------------------------------------------------------------------------
(* command_handler: the appliance's GET of /local_lan/commands.json. The   *)
(* handler takes the seq_no under the lock, takes an entry from the queue, *)
(* writes the reply and then runs the updater; requests in flight together *)
(* interleave between these steps.                                         *)

EmptyData == [kind |-> "empty", name |-> None, value |-> 0, id |-> -1]
NoItem == [priority |-> 0, timestamp |-> 0, command |-> EmptyData,
           updater |-> NoUpdater, asked |-> NoUpdater]
FetchIdle == [pc |-> "idle", seq_no |-> 0, item |-> NoItem]

\* A counter that is handed out and not advanced.
NextSeqNoKept(seq_no) == seq_no
\* Device.get_command_seq_no: the counter after handing out seq_no.
NextSeqNo(seq_no) == seq_no + 1

\* Whether get_nowait finds an entry to hand out (it raises queue.Empty
\* when it does not).
QueueHasEntry(queue) == queue # <<>>

\* A get that waits for an entry, as commands_queue.get() would.
GetWaits(queue) == QueueHasEntry(queue)
\* Whether get_nowait returns at once.
GetNowaitReturns(queue) == TRUE

\* with commands_seq_no_lock: take the current seq_no and advance the
\* counter. The handler threads are interchangeable: a request is taken by
\* the first idle one.
FetchAlloc(h) ==
  /\ fetch[h].pc = "idle"
  /\ \A g \in Handlers : g < h => fetch[g].pc # "idle"
  /\ Len(allocs) < MaxFetches
  /\ fetch' = [fetch EXCEPT ![h] =
                 [pc |-> "pop", seq_no |-> commands_seq_no, item |-> NoItem]]
  /\ commands_seq_no' = NextSeqNo(commands_seq_no)
  /\ allocs' = Append(allocs, commands_seq_no)
  /\ UNCHANGED <<commands_queue, updates_seq_no, properties, next_command_id,
                 frames, enq_count, caller, upd>>
  /\ UNCHANGED key_vars
  /\ UNCHANGED fleet_vars

\* commands_queue.get_nowait(): the least entry, or queue.Empty and the
\* payload {}.
FetchPop(h) ==
  /\ fetch[h].pc = "pop"
  /\ GetNowaitReturns(commands_queue)
  /\ IF QueueHasEntry(commands_queue)
     THEN /\ commands_queue' = heappop_rest(commands_queue)
          /\ fetch' = [fetch EXCEPT ![h].pc = "write",
                                    ![h].item = heappop_item(commands_queue)]
     ELSE /\ fetch' = [fetch EXCEPT ![h].pc = "write"]
          /\ UNCHANGED commands_queue
  /\ UNCHANGED <<commands_seq_no, updates_seq_no, properties, next_command_id,
                 frames, allocs, enq_count, caller, upd>>
  /\ UNCHANGED key_vars
  /\ UNCHANGED fleet_vars

\* Whether the entry handed out carries an updater to run after the write.
HasUpdater(item) == item.updater.name # None

\* do_HEAD(200) and _write_json(_encrypt_and_sign(command)).
FetchWrite(h) ==
  /\ fetch[h].pc = "write"
  /\ frames' = Append(frames, [seq_no |-> fetch[h].seq_no,
                               data |-> fetch[h].item.command, status |-> 200])
  /\ fetch' = [fetch EXCEPT ![h] =
                 IF HasUpdater(fetch[h].item) THEN [@ EXCEPT !.pc = "updater"]
                 ELSE FetchIdle]
  /\ UNCHANGED device_vars
  /\ UNCHANGED <<allocs, enq_count, caller, upd>>
  /\ UNCHANGED key_vars
  /\ UNCHANGED fleet_vars

\* The write of the reply raises (the appliance closed the connection):
\* the handler ends and the updater is not run.
FetchWriteFails(h) ==
  /\ fetch[h].pc = "write"
  /\ fetch' = [fetch EXCEPT ![h] = FetchIdle]
  /\ UNCHANGED device_vars
  /\ UNCHANGED <<frames, allocs, enq_count, caller, upd>>
  /\ UNCHANGED key_vars
  /\ UNCHANGED fleet_vars

\* property_updater(): the value the command asked for is written to the
\* mirror.
FetchUpdater(h) ==
  /\ fetch[h].pc = "updater"
  /\ properties' = update_property(properties, fetch[h].item.updater.name,
                                   fetch[h].item.updater.value)
  /\ fetch' = [fetch EXCEPT ![h] = FetchIdle]
  /\ UNCHANGED <<commands_queue, commands_seq_no, updates_seq_no, next_command_id,
                 frames, allocs, enq_count, caller, upd>>
  /\ UNCHANGED key_vars
  /\ UNCHANGED fleet_vars

----------------------------------------------------------------------------
(* property_update_handler: the appliance's POST of a datapoint. The       *)
(* handler verifies the frame, checks the seq_no under the lock, and then  *)
(* writes the value to the mirror.                                         *)

\* high_water is the mark that the check of the seq_no found.
UpdIdle == [pc |-> "idle", seq_no |-> 0, data |-> EmptyData, status |-> 0,
            outcome |-> None, high_water |-> 0, frame |-> "ok"]

\* What _decrypt_and_validate makes of a posted frame: it returns the
\* update ("ok"); b64decode or the AES decrypt raises ("decrypt_fails"); the
\* signature differs and the plaintext is text ("hmac_mismatch") or is not
\* UTF-8, so that the message of the Error cannot be built
\* ("hmac_mismatch_binary"); or the signature is right and json.loads
\* raises ("not_json").
Framings ==
  {"ok", "decrypt_fails", "hmac_mismatch", "hmac_mismatch_binary", "not_json"}

\* The status of the reply to a frame that does not pass: the handler
\* catches Error and answers 400; any other exception reaches do_POST,
\* which answers 404.
FramingStatus(frame) == IF frame = "hmac_mismatch" THEN 400 ELSE 404

\* Registers the appliance reports: power ON, mode COOL, 24 degrees; one
\* that holds nothing but the power change flag; and 0.
Registers == {{6, 10, 20, 21}, {5}, {}}

\* The data of the updates the appliance sends: {} for a property it does
\* not know, or a name and a wire value.
UpdateData ==
  {EmptyData}
  \cup {[kind |-> "datapoint", name |-> "f_temp_in", value |-> v] : v \in {"75.0", "81.0"}}
  \cup {[kind |-> "datapoint", name |-> "t_power", value |-> v] : v \in {0, 1, 2}}
  \cup {[kind |-> "datapoint", name |-> "t_temp", value |-> v] : v \in {72}}
  \cup {[kind |-> "datapoint", name |-> "t_control_value", value |-> v] : v \in Registers}
  \cup {[kind |-> "datapoint", name |-> "t_unknown", value |-> 0]}

\* data_type(value): whether the declared type accepts the wire value.
TypeAccepts(name, value) ==
  /\ name \in PropNames
  /\ IsEnum(get_type(name)) => HasEnumValue(get_type(name), value)

\* data_type(value): the typed value of a wire value.
TypedValue(name, value) ==
  CASE get_type(name) = "float" -> ParseFloat(value)
    [] IsEnum(get_type(name)) -> EnumNameOf(get_type(name), value)
    [] OTHER -> value

\* A test that has no exception for seq_no 0.
IsStaleAlsoZero(high_water, seq_no) == high_water > seq_no
\* Device.is_update_valid: an update is stale when the high-water mark is
\* above its seq_no and the seq_no is not 0.
IsStale(high_water, seq_no) == high_water > seq_no /\ seq_no > 0

\* A mark that is moved before the test.
NextHighWaterMoved(high_water, seq_no) == seq_no
\* Device.is_update_valid: the high-water mark it leaves.
NextHighWater(high_water, seq_no) ==
  IF IsStale(high_water, seq_no) THEN high_water ELSE seq_no

\* _decrypt_and_validate, then do_HEAD(200). Of a frame that does not pass
\* the handler reads neither seq_no nor data.
UpdateReceive ==
  /\ upd.pc = "idle"
  /\ \E frame \in Framings, seq_no \in 0..MaxSeqNo, data \in UpdateData :
       upd' = IF frame = "ok"
              THEN [pc |-> "seq", seq_no |-> seq_no, data |-> data, status |-> 200,
                    outcome |-> None, high_water |-> 0, frame |-> frame]
              ELSE [pc |-> "idle", seq_no |-> 0, data |-> EmptyData,
                    status |-> FramingStatus(frame), outcome |-> "invalid",
                    high_water |-> 0, frame |-> frame]
  /\ UNCHANGED device_vars
  /\ UNCHANGED queue_vars
  /\ UNCHANGED key_vars
  /\ UNCHANGED fleet_vars

\* with updates_seq_no_lock: drop a stale update, else move the high-water
\* mark to the update's seq_no.
UpdateSeqCheck ==
  /\ upd.pc = "seq"
  /\ upd' = IF IsStale(updates_seq_no, upd.seq_no)
            THEN [upd EXCEPT !.pc = "idle", !.outcome = "stale",
                             !.high_water = updates_seq_no]
            ELSE [upd EXCEPT !.pc = "apply", !.high_water = updates_seq_no]
  /\ updates_seq_no' = NextHighWater(updates_seq_no, upd.seq_no)
  /\ UNCHANGED <<commands_queue, commands_seq_no, properties, next_command_id>>
  /\ UNCHANGED queue_vars
  /\ UNCHANGED key_vars
  /\ UNCHANGED fleet_vars

\* The rest of the handler: an update without data, of an unknown name or
\* of a value its type rejects is logged; any other is written to the
\* mirror.
UpdateApply ==
  /\ upd.pc = "apply"
  /\ IF upd.data.kind = "empty"
     THEN /\ upd' = [upd EXCEPT !.pc = "idle", !.outcome = "nodata"]
          /\ UNCHANGED properties
     ELSE IF ~TypeAccepts(upd.data.name, upd.data.value)
     THEN /\ upd' = [upd EXCEPT !.pc = "idle", !.outcome = "failed"]
          /\ UNCHANGED properties
     ELSE /\ upd' = [upd EXCEPT !.pc = "idle", !.outcome = "written"]
          /\ properties' = update_property(properties, upd.data.name,
                                           TypedValue(upd.data.name, upd.data.value))
  /\ UNCHANGED <<commands_queue, commands_seq_no, updates_seq_no, next_command_id>>
  /\ UNCHANGED queue_vars
  /\ UNCHANGED key_vars
  /\ UNCHANGED fleet_vars

----------------------------------------------------------------------------
(* Update handlers side by side: each takes an update of t_power, tests    *)
(* its seq_no under the lock and, the lock released, writes the mirror.    *)

\* _decrypt_and_validate gives the update of handler h.
RaceReceive(h) ==
  /\ race.handlers[h].pc = "idle"
  /\ \E seq_no \in 0..MaxSeqNo, value \in {"ON", "OFF"} :
       race' = [race EXCEPT !.handlers[h] =
                  [pc |-> "seq", seq_no |-> seq_no, value |-> value]]
  /\ UNCHANGED <<device_vars, queue_vars, upd, key_vars, wire, swap, ntf, fleet, reg, wake, feed>>

\* Device.is_update_valid, under updates_seq_no_lock.
RaceSeqCheck(h) ==
  /\ race.handlers[h].pc = "seq"
  /\ race' = [race EXCEPT !.handlers[h].pc =
                IF IsStale(updates_seq_no, race.handlers[h].seq_no)
                THEN "stale" ELSE "apply"]
  /\ updates_seq_no' = NextHighWater(updates_seq_no, race.handlers[h].seq_no)
  /\ UNCHANGED <<commands_queue, commands_seq_no, properties, next_command_id>>
  /\ UNCHANGED <<queue_vars, upd, key_vars, wire, swap, ntf, fleet, reg, wake, feed>>

\* update_property(name, value): the write to the mirror and the
\* notification of the listeners.
RaceApply(h) ==
  /\ race.handlers[h].pc = "apply"
  /\ properties' = update_property(properties, "t_power", race.handlers[h].value)
  /\ race' = [race EXCEPT !.handlers[h].pc = "written",
                          !.notes = Append(@, h)]
  /\ UNCHANGED <<commands_queue, commands_seq_no, updates_seq_no, next_command_id>>
  /\ UNCHANGED <<queue_vars, upd, key_vars, wire, swap, ntf, fleet, reg, wake, feed>>

----------------------------------------------------------------------------
(* Config and Encryption: the session keys. HMAC-SHA256 is taken to be     *)
(* injective: a digest is the pair of its key and its message.             *)

\* Encryption.hmac_digest
hmac_digest(key, msg) == <<"hmac", key, msg>>

\* Encryption._build_key: HMAC(key, HMAC(key, msg) + msg)
build_key(lanip_key, msg) ==
  hmac_digest(lanip_key, <<hmac_digest(lanip_key, msg), msg>>)

\* Encryption.__init__: the three keys of one direction; the IV is the
\* first AES.block_size bytes of its digest.
Encryption(lanip_key, msg) ==
  [sign_key |-> build_key(lanip_key, msg \o "0"),
   crypto_key |-> build_key(lanip_key, msg \o "1"),
   iv_seed |-> <<"first16", build_key(lanip_key, msg \o "2")>>]

\* Config._update_encryption: the message of the app context, random_1 +
\* random_2 + str(time_1) + str(time_2), and of the dev context.
AppMessageReversed(cfg) ==
  cfg.random_2 \o cfg.random_1 \o ToString(cfg.time_2) \o ToString(cfg.time_1)
AppMessage(cfg) ==
  cfg.random_1 \o cfg.random_2 \o ToString(cfg.time_1) \o ToString(cfg.time_2)
DevMessage(cfg) ==
  cfg.random_2 \o cfg.random_1 \o ToString(cfg.time_2) \o ToString(cfg.time_1)
AppEncryption(cfg) == Encryption(cfg.lanip_key, AppMessage(cfg))
DevEncryption(cfg) == Encryption(cfg.lanip_key, DevMessage(cfg))

\* The LanConfig the server starts from (the config file).
InitLanConfig ==
  [lanip_key |-> "K", lanip_key_id |-> 8888, random_1 |-> "Y", time_1 |-> 7,
   random_2 |-> "X", time_2 |-> 0]

\* time.monotonic_ns() % 2**40, with the modulus scaled down to TimeModulus.
TimeModulus == 4
time_2_sample == mono % TimeModulus

\* random.choices(ascii_letters + digits, k=16), scaled down to one of two
\* strings.
Random2 == {"P", "Q"}

\* The key_exchange objects the appliance posts. sec is absent, present
\* with a false value (0, "", null) or present with a true value; missing
\* names a field the object lacks.
KeyRequests ==
  [ver : {1, 2}, proto : {1, 2}, sec : {"absent", "false", "true"},
   key_id : {8888, 9999}, random_1 : {"A", "A1"}, time_1 : {1, 12},
   missing : {None}]
  \cup [ver : {1}, proto : {1}, sec : {"absent"}, key_id : {8888, 9999},
        random_1 : {"A"}, time_1 : {1}, missing : {"random_1", "time_1"}]

\* The test of key_exchange_handler that raises KeyError.
KeyInvalid(key) == key.ver # 1 \/ key.proto # 1 \/ key.sec = "true"

\* A test that takes any key_id for the stored one.
KeyIdAny(key, cfg) == TRUE
\* Whether the key_id of the request is the stored one.
KeyIdMatches(key, cfg) == key.key_id = cfg.lanip_key_id

KxNone == [n |-> 0, status |-> 0, paired |-> FALSE,
           req |-> [ver |-> 1, proto |-> 1, sec |-> "absent", key_id |-> 8888,
                    random_1 |-> "Y", time_1 |-> 7, missing |-> None],
           resp |-> [random_2 |-> "X", time_2 |-> 0]]

\* key_exchange_handler, for one request.
KeyExchange(key) ==
  LET stored1 == [lan_config EXCEPT !.random_1 = key.random_1]
      stored == [stored1 EXCEPT !.time_1 = key.time_1]
      answer(status, paired) ==
        [n |-> kx.n + 1, status |-> status, paired |-> paired, req |-> key,
         resp |-> kx.resp]
  IN IF KeyInvalid(key) \/ key.missing = "random_1"
     THEN /\ kx' = answer(400, kx.paired)
          /\ UNCHANGED <<lan_config, app, dev>>
     ELSE IF key.missing = "time_1"
     THEN /\ kx' = answer(400, kx.paired)
          /\ lan_config' = stored1
          /\ UNCHANGED <<app, dev>>
     ELSE IF ~KeyIdMatches(key, lan_config)
     THEN /\ kx' = answer(404, kx.paired)
          /\ lan_config' = stored
          /\ UNCHANGED <<app, dev>>
     ELSE \E random_2 \in Random2 :
            LET cfg == [stored EXCEPT !.random_2 = random_2,
                                      !.time_2 = time_2_sample]
            IN /\ lan_config' = cfg
               /\ app' = AppEncryption(cfg)
               /\ dev' = DevEncryption(cfg)
               /\ kx' = [n |-> kx.n + 1, status |-> 200, paired |-> TRUE,
                         req |-> key,
                         resp |-> [random_2 |-> cfg.random_2, time_2 |-> cfg.time_2]]

\* A key exchange that starts the device's session anew: the counter of
\* the fetches and the queue are reset.
KeyExchangeResets ==
  /\ kx.n < MaxExchanges
  /\ \E key \in KeyRequests : KeyExchange(key)
  /\ commands_seq_no' = 0
  /\ commands_queue' = <<>>
  /\ UNCHANGED <<mono, updates_seq_no, properties, next_command_id>>
  /\ UNCHANGED queue_vars
  /\ UNCHANGED upd
  /\ UNCHANGED fleet_vars
\* The appliance posts /local_lan/key_exchange.json.
KeyExchangeRequest ==
  /\ kx.n < MaxExchanges
  /\ \E key \in KeyRequests : KeyExchange(key)
  /\ UNCHANGED mono
  /\ UNCHANGED device_vars
  /\ UNCHANGED queue_vars
  /\ UNCHANGED upd
  /\ UNCHANGED fleet_vars

\* The monotonic clock advances.
MonoTick ==
  /\ mono < MaxMono
  /\ mono' = mono + 1
  /\ UNCHANGED <<lan_config, app, dev, kx>>
  /\ UNCHANGED device_vars
  /\ UNCHANGED queue_vars
  /\ UNCHANGED upd
  /\ UNCHANGED fleet_vars

----------------------------------------------------------------------------
(* A key exchange step by step, beside a handler that makes a frame: the   *)
(* handler of the exchange stores the four values and Config.update        *)
(* assigns the two contexts one after the other.                           *)

\* key_exchange_handler of a request that passes, up to the call of
\* _update_encryption: the configuration is stored.
SwapStore ==
  /\ swap.pc = "idle"
  /\ swap.n < MaxExchanges
  /\ \E key \in KeyRequests, random_2 \in Random2 :
       /\ ~KeyInvalid(key) /\ key.missing = None /\ KeyIdMatches(key, lan_config)
       /\ lan_config' = [lan_config EXCEPT !.random_1 = key.random_1,
                                           !.time_1 = key.time_1,
                                           !.random_2 = random_2,
                                           !.time_2 = time_2_sample]
  /\ swap' = [swap EXCEPT !.pc = "app", !.n = @ + 1, !.old = lan_config]
  /\ UNCHANGED <<app, dev, mono, kx>>
  /\ UNCHANGED <<device_vars, queue_vars, upd, wire, race, ntf, fleet, reg, wake, feed>>

\* self.app = Encryption(...)
SwapApp ==
  /\ swap.pc = "app"
  /\ app' = AppEncryption(lan_config)
  /\ swap' = [swap EXCEPT !.pc = "dev"]
  /\ UNCHANGED <<lan_config, dev, mono, kx>>
  /\ UNCHANGED <<device_vars, queue_vars, upd, wire, race, ntf, fleet, reg, wake, feed>>

\* self.dev = Encryption(...)
SwapDev ==
  /\ swap.pc = "dev"
  /\ dev' = DevEncryption(lan_config)
  /\ swap' = [swap EXCEPT !.pc = "idle"]
  /\ UNCHANGED <<lan_config, app, mono, kx>>
  /\ UNCHANGED <<device_vars, queue_vars, upd, wire, race, ntf, fleet, reg, wake, feed>>

\* _encrypt_and_sign reads _config.app for the cipher,
FrameEnc ==
  /\ swap.frame # "enc"
  /\ swap' = [swap EXCEPT !.frame = "enc", !.enc = app]
  /\ UNCHANGED <<device_vars, queue_vars, upd, key_vars, wire, race, ntf, fleet, reg, wake, feed>>

\* and reads it again for the key of the signature.
FrameSign ==
  /\ swap.frame = "enc"
  /\ swap' = [swap EXCEPT !.frame = "signed", !.sign = app]
  /\ UNCHANGED <<device_vars, queue_vars, upd, key_vars, wire, race, ntf, fleet, reg, wake, feed>>

----------------------------------------------------------------------------
(* Notifier: the loop that pokes every registered device with local_reg.   *)

Devices == 1..NumDevices

\* Notifier._FAILURE_THRESHOLD
FAILURE_THRESHOLD == 5

\* What becomes of one local_reg request: the device answers 202; it
\* answers another status, which is raised as ConnectionError; or the
\* request fails in the transport (a timeout, an aiohttp.ClientError),
\* which is not a ConnectionError.
Outcomes == {"accepted", "refused", "unreachable"}

\* register_device: _NotifyConfiguration(device, headers, 0, -1), of a
\* device whose _available is False. due tells that last_timestamp is
\* _KEEP_ALIVE_INTERVAL or more ago; streak counts the failed requests
\* since the last accepted one and offline the 'offline' notifications of
\* the device's listeners in that time.
NotifyConfiguration ==
  [failure_cnt |-> -1, due |-> TRUE, available |-> FALSE, streak |-> 0,
   offline |-> 0]

\* config.failure_cnt += 1. The code compares the counter with 0 and with
\* the threshold only, so that the values above MaxFailureCnt are taken
\* for one.
CountUp(cnt) == IF cnt < MaxFailureCnt THEN cnt + 1 ELSE cnt

\* A test that no counter passes.
ReachesThresholdNever(cnt) == FALSE
\* config.failure_cnt == self._FAILURE_THRESHOLD
ReachesThreshold(cnt) == cnt = FAILURE_THRESHOLD

\* Notifier._is_device_available
is_device_available(config) ==
  IF config.available THEN config.failure_cnt = 0 ELSE FALSE

\* Notifier._perform_request, one attempt: the configuration it leaves.
\* The setter of Device.available notifies the listeners at every call.
perform_request(config, outcome) ==
  IF outcome = "accepted"
  THEN IF config.failure_cnt # 0
       THEN [config EXCEPT !.failure_cnt = 0, !.available = TRUE,
                           !.streak = 0, !.offline = 0]
       ELSE [config EXCEPT !.streak = 0, !.offline = 0]
  ELSE LET counted == [config EXCEPT !.failure_cnt = CountUp(@),
                                     !.streak = CountUp(@)]
       IN IF ReachesThreshold(counted.failure_cnt)
          THEN [counted EXCEPT !.available = FALSE, !.offline = CountUp(@)]
          ELSE counted

\* Notifier.start: the loop goes on to the next entry, or to the wait
\* after the last.
NextEntry(n) ==
  IF n.entry < NumDevices THEN [n EXCEPT !.pc = "loop", !.entry = @ + 1]
  ELSE [n EXCEPT !.pc = "wait", !.entry = 1]

\* Notifier.start, one entry: a request is made when the last one is
\* _KEEP_ALIVE_INTERVAL ago or the queue of the device holds a command.
NotifierVisit ==
  /\ ntf.pc = "loop"
  /\ \E queued \in BOOLEAN :
       ntf' = IF ntf.configurations[ntf.entry].due \/ queued
              THEN [ntf EXCEPT !.pc = "request"]
              ELSE NextEntry(ntf)
  /\ UNCHANGED <<device_vars, queue_vars, upd, key_vars, wire, race, swap, wake, fleet, reg, feed>>

\* await self._perform_request(session, entry): the method is chosen at
\* every attempt (poke holds it, and whether the device was available then);
\* an accepted request sets last_timestamp; a ConnectionError is retried by the retry decorator,
\* which has no stop condition; any other exception is logged by start,
\* which goes on.
NotifierRequest ==
  /\ ntf.pc = "request"
  /\ \E outcome \in Outcomes :
       LET config == ntf.configurations[ntf.entry]
           method == IF is_device_available(config) THEN "PUT" ELSE "POST"
           after == [ntf EXCEPT !.configurations[ntf.entry] =
                                  perform_request(@, outcome),
                                !.poke = [method |-> method,
                                          online |-> config.available]]
       IN ntf' = CASE outcome = "accepted" ->
                        NextEntry([after EXCEPT
                                     !.configurations[ntf.entry].due = FALSE])
                   [] outcome = "refused" -> [after EXCEPT !.pc = "retry"]
                   [] outcome = "unreachable" -> NextEntry(after)
  /\ UNCHANGED <<device_vars, queue_vars, upd, key_vars, wire, race, swap, wake, fleet, reg, feed>>

\* wait_incrementing(start=0.5, increment=1.5, max=10): the sleep of the
\* retry decorator, after which _perform_request is called again.
NotifierRetry ==
  /\ ntf.pc = "retry"
  /\ ntf' = [ntf EXCEPT !.pc = "request"]
  /\ UNCHANGED <<device_vars, queue_vars, upd, key_vars, wire, race, swap, wake, fleet, reg, feed>>

\* _wait_on_condition_with_timeout times out: _KEEP_ALIVE_INTERVAL has
\* passed since every last_timestamp. The while ends here once _running
\* is cleared.
NotifierWaitTimeout ==
  /\ ntf.pc = "wait"
  /\ ntf' = [ntf EXCEPT !.pc = IF ntf.running THEN "loop" ELSE "exited",
                        !.configurations =
                          [d \in Devices |-> [@[d] EXCEPT !.due = TRUE]]]
  /\ UNCHANGED <<device_vars, queue_vars, upd, key_vars, wire, race, swap, wake, fleet, reg, feed>>

\* The condition is notified, or asyncio.sleep(_TIME_TO_HANDLE_REQUESTS)
\* ends, before the interval has passed.
NotifierWake ==
  /\ ntf.pc = "wait"
  /\ ntf' = [ntf EXCEPT !.pc = IF ntf.running THEN "loop" ELSE "exited"]
  /\ UNCHANGED <<device_vars, queue_vars, upd, key_vars, wire, race, swap, wake, fleet, reg, feed>>

\* Notifier.stop: _running is cleared and the condition is notified. The
\* loop reads _running when it comes back to the head of the while.
NotifierStop ==
  /\ ntf.running
  /\ ntf.pc # "exited"
  /\ ntf' = [ntf EXCEPT !.running = FALSE]
  /\ UNCHANGED <<device_vars, queue_vars, upd, key_vars, wire, race, swap, wake, fleet, reg, feed>>

----------------------------------------------------------------------------
(* The notifier's loop and the enqueues that notify it, for one device.    *)
(* start holds the lock of the condition but while it waits on it; a       *)
(* _notify waits for the lock, which is handed on in the order of asking.  *)

\* The deepest queue.
MaxDepth == 2

\* The loop as start enters it: last_timestamp is 0, no command is queued.
\* ahead counts the _notify calls that wait for the lock, late those that
\* came after the waiter was woken; fresh tells that a command was put
\* since the loop last read the depth; extra counts the passes since the
\* last enqueue that no timeout started.
WakeIdle ==
  [pc |-> "visit", depth |-> 0, seen |-> 0, due |-> TRUE, ahead |-> 0,
   late |-> 0, fresh |-> FALSE, extra |-> 0, notify |-> 0, puts |-> 0]

\* The rest of a pass: the wait on the condition, or the sleep when a
\* queue was seen to hold more than one command.
AfterPass(w) == [w EXCEPT !.pc = IF w.seen > 1 THEN "sleep" ELSE "wait"]

\* queue_command: put_nowait and the listener, Notifier.notify.
WakeEnqueue ==
  /\ wake.depth < MaxDepth
  /\ wake.puts < MaxEnqueues
  /\ wake' = [wake EXCEPT !.depth = @ + 1, !.fresh = TRUE, !.extra = 0,
                          !.puts = @ + 1,
                          !.ahead = IF wake.pc = "woken" THEN @ ELSE @ + 1,
                          !.late = IF wake.pc = "woken" THEN @ + 1 ELSE @]
  /\ UNCHANGED <<device_vars, queue_vars, upd, key_vars, wire, race, swap, ntf, fleet, reg, feed>>

\* The appliance fetches a command.
WakeFetch ==
  /\ wake.depth > 0
  /\ wake' = [wake EXCEPT !.depth = @ - 1]
  /\ UNCHANGED <<device_vars, queue_vars, upd, key_vars, wire, race, swap, ntf, fleet, reg, feed>>

\* start, the entry of the device: the depth is read and a request is
\* made when the interval has passed or a command is queued.
WakeVisit ==
  /\ wake.pc = "visit"
  /\ LET read == [wake EXCEPT !.seen = wake.depth, !.fresh = FALSE]
     IN wake' = IF wake.due \/ wake.depth > 0
                THEN [read EXCEPT !.pc = "request"]
                ELSE AfterPass(read)
  /\ UNCHANGED <<device_vars, queue_vars, upd, key_vars, wire, race, swap, ntf, fleet, reg, feed>>

\* _perform_request: notify is 1 when the queue holds a command then. A
\* refused request is retried; an accepted one sets last_timestamp.
WakeRequest ==
  /\ wake.pc = "request"
  /\ \E outcome \in Outcomes :
       LET sent == [wake EXCEPT !.notify = IF wake.depth > 0 THEN 1 ELSE 0]
       IN wake' = CASE outcome = "accepted" -> AfterPass([sent EXCEPT !.due = FALSE])
                    [] outcome = "refused" -> sent
                    [] outcome = "unreachable" -> AfterPass(sent)
  /\ UNCHANGED <<device_vars, queue_vars, upd, key_vars, wire, race, swap, ntf, fleet, reg, feed>>

\* _notify gets the lock and calls notify_all: the waiter is woken, if
\* there is one.
WakeNotify ==
  /\ wake.pc \in {"wait", "woken"}
  /\ wake.ahead > 0
  /\ wake' = [wake EXCEPT !.ahead = @ - 1, !.pc = "woken"]
  /\ UNCHANGED <<device_vars, queue_vars, upd, key_vars, wire, race, swap, ntf, fleet, reg, feed>>

\* The woken waiter gets the lock back, after the calls that asked before
\* it, and the loop makes its next pass.
WakeResume ==
  /\ wake.pc = "woken"
  /\ wake.ahead = 0
  /\ wake' = [wake EXCEPT !.pc = "visit", !.ahead = wake.late, !.late = 0,
                          !.extra = IF @ < 2 THEN @ + 1 ELSE @]
  /\ UNCHANGED <<device_vars, queue_vars, upd, key_vars, wire, race, swap, ntf, fleet, reg, feed>>

\* The wait times out: _KEEP_ALIVE_INTERVAL has passed.
WakeTimeout ==
  /\ wake.pc = "wait"
  /\ wake' = [wake EXCEPT !.pc = "visit", !.due = TRUE]
  /\ UNCHANGED <<device_vars, queue_vars, upd, key_vars, wire, race, swap, ntf, fleet, reg, feed>>

\* asyncio.sleep(_TIME_TO_HANDLE_REQUESTS) ends.
WakeSleepEnd ==
  /\ wake.pc = "sleep"
  /\ wake' = [wake EXCEPT !.pc = "visit", !.extra = IF @ < 2 THEN @ + 1 ELSE @]
  /\ UNCHANGED <<device_vars, queue_vars, upd, key_vars, wire, race, swap, ntf, fleet, reg, feed>>

----------------------------------------------------------------------------
(* The queue of one device over a run without end: callers and the status  *)
(* thread put, the appliance fetches. An entry is told apart by the place  *)
(* it was given when it was put; the seq_no of the fetch and the updater   *)
(* are left out.                                                           *)

FeedIdle == [queue |-> <<>>, emitted |-> NoItem]

\* The places of the queue that no entry has.
FreePlaces ==
  {k \in 1..MaxDepth : \A i \in 1..Len(feed.queue) : feed.queue[i].command.id # k}

\* Device.queue_command, for a write that is accepted.
FeedWrite ==
  /\ FreePlaces # {}
  /\ \E input \in {<<"t_power", "OFF">>, <<"t_temp", "22">>}, time_ns \in ClockReadings :
       LET res == queue_command(DefaultProperties, input[1], input[2])
           k == CHOOSE p \in FreePlaces : \A q \in FreePlaces : p <= q
       IN feed' = [feed EXCEPT !.queue =
                     heappush(@, [SetCommand(res, time_ns) EXCEPT !.command.id = k])]
  /\ UNCHANGED <<device_vars, queue_vars, upd, key_vars, wire, race, swap, wake, ntf, fleet, reg>>

\* Device.queue_status, for one field.
FeedStatus ==
  /\ FreePlaces # {}
  /\ \E i \in 1..MaxStatusFields, time_ns \in ClockReadings :
       LET k == CHOOSE p \in FreePlaces : \A q \in FreePlaces : p <= q
       IN feed' = [feed EXCEPT !.queue =
                     heappush(@, [StatusCommand(Fields[i], time_ns)
                                    EXCEPT !.command.id = k])]
  /\ UNCHANGED <<device_vars, queue_vars, upd, key_vars, wire, race, swap, wake, ntf, fleet, reg>>

\* command_handler: the least entry is taken and emitted.
FeedFetch ==
  /\ QueueHasEntry(feed.queue)
  /\ feed' = [queue |-> heappop_rest(feed.queue),
              emitted |-> heappop_item(feed.queue)]
  /\ UNCHANGED <<device_vars, queue_vars, upd, key_vars, wire, race, swap, wake, ntf, fleet, reg>>

----------------------------------------------------------------------------
(* A server with several devices: every request of an appliance is for the *)
(* device that has the address it comes from.                              *)

\* Two of the devices the server is configured with.
Pair == {1, 2}

\* Device.ip_address, of config['ip_address'].
IpAddress(d) == 100 + d

\* The addresses requests come from: those of the devices and one more.
Senders == {IpAddress(d) : d \in Pair} \cup {100}

\* The devices that a request from this address is for.
Resolve(sender) == {d \in Pair : IpAddress(d) = sender}

\* One queue object that every device holds.
QueueOwnerShared(d) == 1
\* Device.__init__: self.commands_queue = queue.PriorityQueue(), the queue
\* object that device d holds is its own.
QueueOwner(d) == d

\* Device.__init__: the counters and the mirror of one device.
NewDevice ==
  [commands_seq_no |-> 0, updates_seq_no |-> 0, properties |-> DefaultProperties]

\* last tells the request handled last: the device it was for (0 when for
\* none) and, of a fetch, the reply: its status and seq_no, the id of the
\* command it carries and the device that command was enqueued for. puts
\* counts the put_nowait calls.
Handled(op, d) ==
  [op |-> op, device |-> d, status |-> 0, seq_no |-> 0, id |-> -1, for |-> 0]

\* device.queue_command('t_power', 'OFF'), for device d. The clock is
\* taken to advance from one put to the next here: the order of emission
\* within a device is not the matter of this part.
FleetEnqueue ==
  /\ fleet.puts < MaxFleetPuts
  /\ \E d \in Pair :
       LET put == queue_command(fleet.devices[d].properties, "t_power", "OFF")
           item == [priority |-> 10, timestamp |-> fleet.puts,
                    command |-> [kind |-> "properties", name |-> put.name,
                                 value |-> put.data_value, id |-> fleet.puts],
                    updater |-> [name |-> put.name, value |-> put.typed_value],
                    asked |-> put.asked, device |-> d]
       IN fleet' = [fleet EXCEPT !.queues[QueueOwner(d)] = heappush(@, item),
                                 !.puts = @ + 1,
                                 !.last = Handled("enqueue", d)]
  /\ UNCHANGED <<device_vars, queue_vars, upd, key_vars, wire, race, swap, wake, ntf, reg, feed>>

\* command_handler, for a request from sender: 404 for an address of no
\* device; else the seq_no of the device, the least entry of its queue or
\* {}, the reply, and the updater of the entry.
FleetFetch ==
  \E sender \in Senders :
    IF Resolve(sender) = {}
    THEN /\ fleet' = [fleet EXCEPT
                        !.last = [Handled("fetch", 0) EXCEPT !.status = 404]]
         /\ UNCHANGED <<device_vars, queue_vars, upd, key_vars, wire, race, swap, wake, ntf, reg, feed>>
    ELSE LET d == CHOOSE x \in Resolve(sender) : TRUE
             queue == fleet.queues[QueueOwner(d)]
             device == fleet.devices[d]
             found == QueueHasEntry(queue)
             item == heappop_item(queue)
         IN /\ device.commands_seq_no < MaxFetches
            /\ fleet' =
                 [fleet EXCEPT
                    !.queues[QueueOwner(d)] =
                       IF found THEN heappop_rest(queue) ELSE queue,
                    !.devices[d] =
                       [commands_seq_no |-> NextSeqNo(device.commands_seq_no),
                        updates_seq_no |-> device.updates_seq_no,
                        properties |->
                          IF found
                          THEN update_property(device.properties,
                                               item.updater.name, item.updater.value)
                          ELSE device.properties],
                    !.last =
                       [op |-> "fetch", device |-> d, status |-> 200,
                        seq_no |-> device.commands_seq_no,
                        id |-> IF found THEN item.command.id ELSE -1,
                        for |-> IF found THEN item.device ELSE 0]]
            /\ UNCHANGED <<device_vars, queue_vars, upd, key_vars, wire, race, swap, wake, ntf, reg, feed>>

\* property_update_handler, for a request from sender that reports the
\* power: 0, 1 or a value the type rejects.
FleetUpdate ==
  /\ \E sender \in Senders, seq_no \in 0..MaxFleetSeqNo, value \in {0, 1, 2} :
       IF Resolve(sender) = {}
       THEN fleet' = [fleet EXCEPT
                        !.last = [Handled("update", 0) EXCEPT !.status = 404]]
       ELSE LET d == CHOOSE x \in Resolve(sender) : TRUE
                device == fleet.devices[d]
                stale == IsStale(device.updates_seq_no, seq_no)
            IN fleet' =
                 [fleet EXCEPT
                    !.devices[d] =
                       [commands_seq_no |-> device.commands_seq_no,
                        updates_seq_no |->
                          NextHighWater(device.updates_seq_no, seq_no),
                        properties |->
                          IF ~stale /\ TypeAccepts("t_power", value)
                          THEN update_property(device.properties, "t_power",
                                               TypedValue("t_power", value))
                          ELSE device.properties],
                    !.last = [Handled("update", d) EXCEPT !.status = 200]]
  /\ UNCHANGED <<device_vars, queue_vars, upd, key_vars, wire, race, swap, wake, ntf, reg, feed>>

----------------------------------------------------------------------------
(* clear_up_change_flags, applied to a register and to its own result.     *)

\* The bits of the registers here: change flags and value bits of the
\* power, the fan speed, the work mode, the temperature and the
\* temperature unit, the lowest and the highest bit included.
RegisterBits == {0, 1, 5, 6, 8, 10, 16, 17, 30, 31}

\* self.get_property('t_control_value'): the register of the mirror, any
\* of those made of these bits.
ReadRegister ==
  /\ reg.pc = "none"
  /\ \E control \in SUBSET RegisterBits :
       reg' = [reg EXCEPT !.pc = "register", !.control = control]
  /\ UNCHANGED <<device_vars, queue_vars, upd, key_vars, wire, race, swap, wake, ntf, fleet, feed>>

\* control = control_value.clear_up_change_flags(control), as the set_*
\* methods of AcDevice call it.
ClearUp ==
  /\ reg.pc = "register"
  /\ reg' = [reg EXCEPT !.pc = "cleared",
                        !.cleared = clear_up_change_flags(reg.control)]
  /\ UNCHANGED <<device_vars, queue_vars, upd, key_vars, wire, race, swap, wake, ntf, fleet, feed>>

\* The function is applied to its result.
ClearUpAgain ==
  /\ reg.pc = "cleared"
  /\ reg' = [reg EXCEPT !.pc = "again",
                        !.again = clear_up_change_flags(reg.cleared)]
  /\ UNCHANGED <<device_vars, queue_vars, upd, key_vars, wire, race, swap, wake, ntf, fleet, feed>>

\* update_property('t_control_value', control), as the update handler and
\* the updater of an emitted command call it: the register is written to
\* the mirror.
WriteRegister ==
  /\ reg.pc = "register"
  /\ properties' = update_property(properties, "t_control_value", reg.control)
  /\ reg' = [reg EXCEPT !.pc = "written",
                        !.notes = Notified(properties, "t_control_value", reg.control)]
  /\ UNCHANGED <<commands_queue, commands_seq_no, updates_seq_no, next_command_id>>
  /\ UNCHANGED <<queue_vars, upd, key_vars, wire, race, swap, wake, ntf, fleet, feed>>

\* update_property(name, value) for the power or the work mode, as an
\* update of the named property calls it.
WriteNamed ==
  /\ reg.pc \in {"written", "named"}
  /\ \E name \in {"t_power", "t_work_mode"} :
       \E value \in {m[1] : m \in EnumMembers(get_type(name))} :
         /\ properties' = update_property(properties, name, value)
         /\ reg' = [reg EXCEPT !.pc = "named",
                               !.notes = Notified(properties, name, value)]
  /\ UNCHANGED <<commands_queue, commands_seq_no, updates_seq_no, next_command_id>>
  /\ UNCHANGED <<queue_vars, upd, key_vars, wire, race, swap, wake, ntf, fleet, feed>>

----------------------------------------------------------------------------
(* The codec of the register: a set_*_value and the get_*_value of the     *)
(* same sub-field.                                                         *)

\* The values written to a sub-field: the members of its enum, or for
\* t_temp temperatures of both units, the default 81 among them.
FieldValues(name) ==
  IF name = "t_temp" THEN {16, 30, 63, 64, 81}
  ELSE {m[1] : m \in EnumMembers(get_type(name))}

\* control_value_utils.set_*_value(control, value)
EncodeField ==
  /\ reg.pc = "register"
  /\ \E name \in ControlMapped :
       \E value \in FieldValues(name) :
         reg' = [reg EXCEPT
                   !.pc = "encoded", !.name = name, !.value = value,
                   !.encoded = IF name = "t_work_mode"
                               THEN set_work_mode_value(reg.control, value)
                               ELSE SetSubField(name, reg.control, value)]
  /\ UNCHANGED <<device_vars, queue_vars, upd, key_vars, wire, race, swap, wake, ntf, fleet, feed>>

\* control_value_utils.get_*_value(control), of the register just encoded.
DecodeField ==
  /\ reg.pc = "encoded"
  /\ \E i \in 1..Len(DecodedFields(reg.encoded)) :
       /\ DecodedFields(reg.encoded)[i].name = reg.name
       /\ reg' = [reg EXCEPT !.pc = "decoded",
                             !.decoded = DecodedFields(reg.encoded)[i].value]
  /\ UNCHANGED <<device_vars, queue_vars, upd, key_vars, wire, race, swap, wake, ntf, fleet, feed>>

----------------------------------------------------------------------------
(* The specifications.                                                     *)

\* The mirror of a device that has, or has not yet, been sent a register.
InitialMirrors ==
  {DefaultProperties}
  \cup {update_property(DefaultProperties, "t_control_value", r) :
          r \in {{6, 10, 20, 21}}}

----------------------------------------------------------------------------
(* Framing: what _encrypt_and_sign makes of a payload and what              *)
(* _decrypt_and_validate reads back. AES-CBC is taken to be a keyed         *)
(* permutation: under the key and IV it was made with a ciphertext gives    *)
(* back its plaintext, under any other it gives other bytes. A cipher       *)
(* object chains from frame to frame, so the first frame of a pair of      *)
(* contexts is followed.                                                    *)

\* AES.block_size, scaled down.
block_size == 2
\* The longest payload, in bytes between its braces.
MaxPayload == 2

\* The dicts that are framed: the bytes between the braces of their JSON.
Payloads == UNION {[1..n -> {34, 49}] : n \in 0..MaxPayload}

\* pad: zero bytes up to the next multiple of the block size.
pad(data) ==
  LET new_size == ((Len(data) + block_size - 1) \div block_size) * block_size
  IN data \o [i \in 1..(new_size - Len(data)) |-> 0]

\* unpad: bytes.rstrip of the zero byte.
RECURSIVE unpad_none(_)
unpad_none(data) == data
RECURSIVE unpad(_)
unpad(data) ==
  IF data # <<>> /\ data[Len(data)] = 0
  THEN unpad(SubSeq(data, 1, Len(data) - 1))
  ELSE data

\* _encrypt_and_sign, under the context ctx: json.dumps, the cipher over
\* the padded text, the digest over the text.
encrypt_and_sign(ctx, data) ==
  LET text == <<123>> \o data \o <<125>>
  IN [enc |-> [crypto_key |-> ctx.crypto_key, iv |-> ctx.iv_seed,
               data |-> pad(text)],
      sign |-> hmac_digest(ctx.sign_key, text)]

\* _decrypt_and_validate, under the context ctx: the cipher, unpad, the
\* digest compared, json.loads.
decrypt_and_validate(ctx, frame) ==
  LET enc == frame.enc
      plain == IF enc.crypto_key = ctx.crypto_key /\ enc.iv = ctx.iv_seed
               THEN enc.data
               ELSE [i \in 1..Len(enc.data) |-> 255 - enc.data[i]]
      text == unpad(plain)
      sign == hmac_digest(ctx.sign_key, text)
  IN IF sign # frame.sign
     THEN [raised |-> TRUE, data |-> <<>>]
     ELSE IF Len(text) >= 2 /\ text[1] = 123 /\ text[Len(text)] = 125
     THEN [raised |-> FALSE, data |-> SubSeq(text, 2, Len(text) - 1)]
     ELSE [raised |-> TRUE, data |-> <<>>]

\* The contexts a frame is made or read under: the two of the present
\* exchange and the outgoing one of the configuration file.
Contexts == {app, dev, AppEncryption(InitLanConfig)}

\* One side frames a payload under its context.
EncryptAndSign ==
  /\ wire.pc = "idle"
  /\ \E data \in Payloads, ctx \in Contexts :
       wire' = [wire EXCEPT !.pc = "sent", !.data = data, !.made = ctx,
                            !.frame = encrypt_and_sign(ctx, data)]
  /\ UNCHANGED <<device_vars, queue_vars, upd, key_vars, race, swap, ntf, fleet, reg, wake, feed>>

\* The other side reads the frame under its context.
DecryptAndValidate ==
  /\ wire.pc = "sent"
  /\ \E ctx \in Contexts :
       wire' = [wire EXCEPT !.pc = "read", !.read = ctx,
                            !.result = decrypt_and_validate(ctx, wire.frame)]
  /\ UNCHANGED <<device_vars, queue_vars, upd, key_vars, race, swap, ntf, fleet, reg, wake, feed>>

\* The state after construction (Device.__init__, Config.__init__).
InitCommon ==
  /\ commands_queue = <<>>
  /\ commands_seq_no = 0
  /\ updates_seq_no = 0
  /\ next_command_id = 0
  /\ fetch = [h \in Handlers |-> FetchIdle]
  /\ frames = <<>>
  /\ allocs = <<>>
  /\ enq_count = 0
  /\ caller = CallerIdle
  /\ upd = UpdIdle
  /\ lan_config = InitLanConfig
  /\ app = AppEncryption(InitLanConfig)
  /\ dev = DevEncryption(InitLanConfig)
  /\ mono = 0
  /\ kx = KxNone
  /\ ntf = [pc |-> "loop", entry |-> 1, running |-> TRUE,
            poke |-> [method |-> None, online |-> FALSE],
            configurations |-> [d \in Devices |-> NotifyConfiguration]]
  /\ fleet = [queues |-> [q \in Pair |-> <<>>],
              devices |-> [d \in Pair |-> NewDevice],
              puts |-> 0, last |-> Handled("none", 0)]
  /\ reg = [pc |-> "none", control |-> {}, cleared |-> {}, again |-> {},
            name |-> None, value |-> None, encoded |-> {}, decoded |-> None,
            notes |-> <<>>]
  /\ race = [handlers |-> [h \in Handlers |->
                            [pc |-> "idle", seq_no |-> 0, value |-> "ON"]],
             notes |-> <<>>]
  /\ swap = [pc |-> "idle", n |-> 0, old |-> InitLanConfig, frame |-> "none",
             enc |-> AppEncryption(InitLanConfig),
             sign |-> AppEncryption(InitLanConfig)]
  /\ wake = WakeIdle
  /\ feed = FeedIdle
  /\ wire = [pc |-> "idle", data |-> <<>>,
             made |-> AppEncryption(InitLanConfig),
             read |-> AppEncryption(InitLanConfig),
             frame |-> encrypt_and_sign(AppEncryption(InitLanConfig), <<>>),
             result |-> [raised |-> FALSE, data |-> <<>>]]

\* The order of emission: a caller and the status thread enqueue, and the
\* appliance fetches one command at a time.
InitOrder == InitCommon /\ properties = DefaultProperties

\* The requests of the callers here: a write of the power, and of a
\* read-only sensor.
OrderInputs == {<<"t_power", "OFF">>, <<"f_temp_in", "75.0">>}

QueueCommand == QueueCommandOf(OrderInputs)

NextOrder ==
  \/ enq_count < MaxEnqueues /\ QueueCommand
  \/ enq_count < MaxEnqueues /\ QueueStatus
  \/ enq_count < MaxEnqueues /\ CallerNext
  \/ FetchAlloc(1)
  \/ FetchPop(1)
  \/ FetchWrite(1)
  \/ FetchWriteFails(1)
  \/ FetchUpdater(1)

SpecOrder == InitOrder /\ [][NextOrder]_vars

\* The fetches of the appliance, handled side by side, while callers
\* enqueue writes.
InitFetch == InitCommon /\ properties \in InitialMirrors

QueueWrite == enq_count < MaxCommands /\ QueueCommandOf(QueueInputs)

NextFetch ==
  \/ QueueWrite
  \/ \E h \in Handlers : FetchAlloc(h)
  \/ \E h \in Handlers : FetchPop(h)
  \/ \E h \in Handlers : FetchWrite(h)
  \/ \E h \in Handlers : FetchWriteFails(h)
  \/ \E h \in Handlers : FetchUpdater(h)

SpecFetch == InitFetch /\ [][NextFetch]_vars

\* The requests of the home automation side to one AC device: the mirror
\* is that of a device that has sent no register, a register with the power
\* on, a register of change flags only, or the register 0.
RouteMirrors ==
  {DefaultProperties}
  \cup {update_property(DefaultProperties, "t_control_value", r) : r \in Registers}

InitRoute == InitCommon /\ properties \in RouteMirrors

RouteInputs ==
  {<<"t_power", "OFF">>, <<"t_temp", "22">>, <<"t_temp_heatcold", "ON">>,
   <<"t_work_mode", "OFF">>, <<"t_work_mode", "COOL">>, <<"f_temp_in", "75.0">>}

\* One request is made, of /hisense/command or of the MQTT side.
RouteCommand == caller.name = None /\ QueueCommandOf(RouteInputs)

NextRoute ==
  \/ RouteCommand
  \/ CallerNext
  \/ FetchAlloc(1)
  \/ FetchPop(1)
  \/ FetchWrite(1)
  \/ FetchWriteFails(1)
  \/ FetchUpdater(1)

SpecRoute == InitRoute /\ [][NextRoute]_vars

\* The appliance pairs again while a command is queued and fetches go on.
NextRepair ==
  \/ QueueWrite
  \/ enq_count > 0 /\ KeyExchangeRequest
  \/ FetchAlloc(1)
  \/ FetchPop(1)
  \/ FetchWrite(1)
  \/ FetchWriteFails(1)
  \/ FetchUpdater(1)

SpecRepair == InitFetch /\ [][NextRepair]_vars

\* The requests that may fail: a work mode the enum does not have, the
\* fast heat/cold cascade, a property the register has no field for, a
\* read-only sensor, and a temperature that is no number.
FailInputs ==
  {<<"t_work_mode", "BOGUS">>, <<"t_temp_heatcold", "ON">>, <<"t_sleep", "ONE">>,
   <<"f_temp_in", "75.0">>, <<"t_temp", "warm">>, <<"t_temp", "22">>}

FailCommand == caller.name = None /\ QueueCommandOf(FailInputs)

NextFail ==
  \/ FailCommand
  \/ CallerNext
  \/ FetchAlloc(1)
  \/ FetchPop(1)
  \/ FetchWrite(1)
  \/ FetchWriteFails(1)
  \/ FetchUpdater(1)

SpecFail == InitRoute /\ [][NextFail]_vars

\* Two writes to one AC device, of the temperature and then of the fan
\* speed, and after them the fetches of the appliance.
PairMirrors ==
  {update_property(DefaultProperties, "t_control_value", r) :
     r \in {{6, 10, 20, 21}, {6, 10, 20, 21, 2, 3}, {6, 9, 18, 20, 4}}}

InitPair == InitCommon /\ properties \in PairMirrors

FirstWrite == enq_count = 0 /\ QueueCommandOf({<<"t_temp", "22">>})

SecondWrite ==
  /\ enq_count = 1
  /\ QueueCommandOf({<<"t_fan_speed", m[1]>> : m \in EnumMembers("FanSpeed")})

NextPair ==
  \/ FirstWrite
  \/ SecondWrite
  \/ enq_count = 2 /\ FetchAlloc(1)
  \/ FetchPop(1)
  \/ FetchWrite(1)
  \/ FetchWriteFails(1)
  \/ FetchUpdater(1)

SpecPair == InitPair /\ [][NextPair]_vars

\* The notifier. Its loop runs on; the interval of the keep-alive passes
\* again and again.
NextNotifier ==
  \/ NotifierVisit
  \/ NotifierRequest
  \/ NotifierRetry
  \/ NotifierWaitTimeout
  \/ NotifierWake

SpecNotifier ==
  /\ InitOrder
  /\ [][NextNotifier]_vars
  /\ WF_vars(NextNotifier)
  /\ SF_vars(NotifierWaitTimeout)

\* The notifier that is stopped at some time.
SpecStop ==
  /\ InitOrder
  /\ [][NextNotifier \/ NotifierStop]_vars
  /\ WF_vars(NextNotifier)
  /\ SF_vars(NotifierWaitTimeout)

\* The server with several devices.
NextFleet == FleetEnqueue \/ FleetFetch \/ FleetUpdate

SpecFleet == InitOrder /\ [][NextFleet]_vars

\* The registers that clear_up_change_flags is given.
NextClear == ReadRegister \/ ClearUp \/ ClearUpAgain

SpecClear == InitOrder /\ [][NextClear]_vars

\* The codec, for a register and a value.
NextCodec == ReadRegister \/ EncodeField \/ DecodeField

SpecCodec == InitOrder /\ [][NextCodec]_vars

\* The mirror, for a register the appliance reports.
NextMirror == ReadRegister \/ WriteRegister \/ WriteNamed

SpecMirror == InitOrder /\ [][NextMirror]_vars

\* The updates that are handled side by side.
NextRace ==
  \E h \in Handlers : RaceReceive(h) \/ RaceSeqCheck(h) \/ RaceApply(h)

SpecRace == InitOrder /\ [][NextRace]_vars

\* The loop of the notifier beside the enqueues.
NextWake ==
  \/ WakeEnqueue
  \/ WakeFetch
  \/ WakeVisit
  \/ WakeRequest
  \/ WakeNotify
  \/ WakeResume
  \/ WakeTimeout
  \/ WakeSleepEnd

SpecWake == InitOrder /\ [][NextWake]_vars

\* The queue over a run without end; the appliance goes on fetching.
NextFeed == FeedWrite \/ FeedStatus \/ FeedFetch

SpecFeed == InitOrder /\ [][NextFeed]_vars /\ SF_vars(FeedFetch)

\* The key exchange beside a fetch.
NextSwap == SwapStore \/ SwapApp \/ SwapDev \/ FrameEnc \/ FrameSign

SpecSwap == InitOrder /\ [][NextSwap]_vars

\* The frames, between the key exchanges.
NextFrame ==
  \/ wire.pc = "idle" /\ KeyExchangeRequest
  \/ wire.pc = "idle" /\ MonoTick
  \/ EncryptAndSign
  \/ DecryptAndValidate

SpecFrame == InitOrder /\ [][NextFrame]_vars

\* The update path: the appliance posts datapoints.
InitUpdate == InitCommon /\ properties = DefaultProperties

NextUpdate == UpdateReceive \/ UpdateSeqCheck \/ UpdateApply

SpecUpdate == InitUpdate /\ [][NextUpdate]_vars

\* The key exchange.
InitKey == InitCommon /\ properties = DefaultProperties

NextKey == KeyExchangeRequest \/ MonoTick

SpecKey == InitKey /\ [][NextKey]_vars

----------------------------------------------------------------------------
(* The sequence numbers of the fetches.                                    *)

\* The seq_nos held by the handlers that have not written their reply yet.
InFlight == {h \in Handlers : fetch[h].pc \in {"pop", "write"}}

----------------------------------------------------------------------------
(* The fetch and the queue.                                                *)

\* Handler h takes its entry from the queue in this step.
Pops(h) == fetch[h].pc = "pop" /\ fetch'[h].pc = "write"
\* Handler h writes its reply in this step.
Writes(h) ==
  fetch[h].pc = "write" /\ fetch'[h].pc # "write" /\ Len(frames') = Len(frames) + 1

\* C7: a fetch never waits for the queue: the step that takes the entry is
\* always possible, it takes at most one entry, and on an empty queue it
\* leaves the queue empty and the reply is 200 with the data {} and the
\* seq_no the fetch was handed.
FetchNeverBlocks ==
  /\ [](\A h \in Handlers : fetch[h].pc = "pop" => ENABLED FetchPop(h))
  /\ [][\A h \in Handlers :
         /\ Pops(h) =>
              /\ Len(commands_queue') >= Len(commands_queue) - 1
              /\ fetch'[h].seq_no = fetch[h].seq_no
              /\ commands_queue = <<>> =>
                   /\ commands_queue' = <<>>
                   /\ fetch'[h].item.command.kind = "empty"
         /\ Writes(h) =>
              /\ frames'[Len(frames')].status = 200
              /\ frames'[Len(frames')].seq_no = fetch[h].seq_no
              /\ frames'[Len(frames')].data.kind = fetch[h].item.command.kind
              /\ frames'[Len(frames')].data.id = fetch[h].item.command.id]_vars

\* A fetch that found the queue empty was answered 200 with {} under seq_no
\* 1, after an earlier fetch; the queue is empty.
FetchOfEmptyQueueAnswered ==
  /\ commands_queue = <<>>
  /\ commands_seq_no = 2
  /\ \E i \in 1..Len(frames) :
       /\ frames[i].data.kind = "empty"
       /\ frames[i].status = 200
       /\ frames[i].seq_no = 1

----------------------------------------------------------------------------
(* The mirror and the updater of a command.                                *)

\* Handler h runs the updater of its command in this step.
UpdaterRuns(h) == fetch[h].pc = "updater" /\ fetch'[h].pc = "idle"

----------------------------------------------------------------------------
(* The order of emission.                                                  *)

\* C5: the entry a fetch takes has the least priority number of the queue,
\* so a priority-10 command is emitted before every priority-100 command
\* that is queued with it, whenever each was put and whatever their
\* timestamps.
PriorityOvertakes ==
  [][\A h \in Handlers : Pops(h) /\ commands_queue # <<>> =>
       \A i \in 1..Len(commands_queue') :
         fetch'[h].item.priority <= commands_queue'[i].priority]_vars

\* A priority-10 command has been taken by a fetch while a priority-100
\* command that was put before it, with a later timestamp, is still queued.
SetCommandOvertookStatus ==
  /\ fetch[1].pc = "write"
  /\ fetch[1].item.priority = 10
  /\ \E i \in 1..Len(commands_queue) :
       /\ commands_queue[i].priority = 100
       /\ commands_queue[i].command.id < fetch[1].item.command.id
       /\ commands_queue[i].timestamp > fetch[1].item.timestamp

\* C6: within one priority the queue is first in, first out: the entry a
\* fetch takes was put before every entry of its priority that stays
\* queued, also when timestamps are equal or the clock was set back.
FifoWithinPriority ==
  [][\A h \in Handlers : Pops(h) /\ commands_queue # <<>> =>
       \A i \in 1..Len(commands_queue') :
         commands_queue'[i].priority = fetch'[h].item.priority =>
           fetch'[h].item.command.id < commands_queue'[i].command.id]_vars

----------------------------------------------------------------------------
(* The sequence numbers of the inbound updates.                            *)

\* The update in upd has passed the check of its seq_no.
Accepted == upd.pc = "apply" \/ upd.outcome \in {"nodata", "failed", "written"}

\* C2: an update with seq_no > 0 is accepted only when the high-water mark
\* is below its seq_no, and the mark is its seq_no afterwards; an update
\* with 0 < seq_no <= high-water, the equal one included, is dropped as
\* stale.
AcceptedOnlyAboveHighWater ==
  upd.seq_no > 0 =>
    /\ Accepted => upd.high_water < upd.seq_no /\ updates_seq_no = upd.seq_no
    /\ upd.status = 200 /\ upd.pc = "idle" /\ upd.seq_no <= upd.high_water =>
         upd.outcome = "stale"

\* C3: an update with seq_no 0 that verifies is accepted whatever the
\* high-water mark is: the mark becomes 0, and the value of an update
\* that names a property and carries a value of its type is in the mirror.
ZeroSeqNoAccepted ==
  upd.seq_no = 0 /\ upd.status = 200 /\ upd.pc # "seq" =>
    /\ Accepted
    /\ updates_seq_no = 0
    /\ upd.pc = "idle" /\ upd.data.kind = "datapoint"
         /\ TypeAccepts(upd.data.name, upd.data.value) =>
         /\ upd.outcome = "written"
         /\ properties[upd.data.name] = TypedValue(upd.data.name, upd.data.value)

\* With the high-water mark at MaxSeqNo, the update of f_temp_in to "75.0"
\* under seq_no 0 was written and the mark is 0.
ZeroSeqNoWritten ==
  /\ upd.outcome = "written"
  /\ upd.seq_no = 0
  /\ upd.high_water = MaxSeqNo
  /\ upd.data.name = "f_temp_in"
  /\ upd.data.value = "75.0"
  /\ properties["f_temp_in"] = 750
  /\ updates_seq_no = 0

\* C4: a stale update is answered 200 and changes nothing: no step of its
\* request changes the mirror, the high-water mark, the queue or
\* commands_seq_no.
StaleUpdateChangesNothing ==
  [][/\ upd.pc = "idle" /\ upd'.pc = "seq" => UNCHANGED device_vars
     /\ upd.pc = "seq" /\ upd'.outcome = "stale" =>
          upd'.status = 200 /\ UNCHANGED device_vars]_vars

\* With the high-water mark at 3, the update of f_temp_in to "75.0" under
\* seq_no 2 was dropped: the mark is 3 and the mirror holds 81.0.
StaleUpdateDropped ==
  /\ upd.outcome = "stale"
  /\ upd.status = 200
  /\ upd.seq_no = 2
  /\ upd.high_water = 3
  /\ updates_seq_no = 3
  /\ upd.data.name = "f_temp_in"
  /\ upd.data.value = "75.0"
  /\ properties["f_temp_in"] = 810

----------------------------------------------------------------------------
(* The key exchange.                                                       *)

\* The request of the last exchange has ver 1, proto 1, no sec and every
\* field.
WellFormed(req) ==
  req.ver = 1 /\ req.proto = 1 /\ req.sec = "absent" /\ req.missing = None

\* C9: after an exchange with ver 1, proto 1, no sec and the stored key_id
\* the reply is 200 with a random_2 and a time_2 below the modulus, the
\* random_1 and time_1 of the request are stored, and the two contexts are
\* built from the four values of this exchange: app from random_1,
\* random_2, time_1, time_2 and dev from random_2, random_1, time_2,
\* time_1; the contexts in use are these.
KeyExchangeRebuildsContexts ==
  kx.n > 0 /\ WellFormed(kx.req) /\ kx.req.key_id = lan_config.lanip_key_id =>
    LET r1 == kx.req.random_1
        t1 == ToString(kx.req.time_1)
        r2 == kx.resp.random_2
        t2 == ToString(kx.resp.time_2)
    IN /\ kx.status = 200
       /\ kx.resp.random_2 \in Random2
       /\ kx.resp.time_2 \in 0..(TimeModulus - 1)
       /\ lan_config.random_1 = kx.req.random_1
       /\ lan_config.time_1 = kx.req.time_1
       /\ lan_config.random_2 = kx.resp.random_2
       /\ lan_config.time_2 = kx.resp.time_2
       /\ app = Encryption(lan_config.lanip_key, r1 \o r2 \o t1 \o t2)
       /\ dev = Encryption(lan_config.lanip_key, r2 \o r1 \o t2 \o t1)

\* A second exchange was answered 200, with the clock past the modulus, and
\* the contexts are not those of the start.
SecondExchangeAnswered ==
  /\ kx.n = 2
  /\ kx.status = 200
  /\ WellFormed(kx.req)
  /\ kx.req.random_1 = "A1"
  /\ mono >= TimeModulus
  /\ app # AppEncryption(InitLanConfig)
  /\ dev # DevEncryption(InitLanConfig)

\* C10: an exchange that passes the test of ver, proto and sec and whose
\* key_id is not the stored one is answered 404 and leaves both contexts
\* as they were; a device that was not paired is not paired after it.
KeyMismatchKeepsContexts ==
  [][/\ kx'.n # kx.n
     /\ kx'.req.ver = 1 /\ kx'.req.proto = 1 /\ kx'.req.sec # "true"
     /\ kx'.req.missing = None
     /\ kx'.req.key_id # lan_config.lanip_key_id
     => /\ kx'.status = 404
        /\ app' = app
        /\ dev' = dev
        /\ kx'.paired = kx.paired]_vars

\* An exchange with another key_id was answered 404: the device is not
\* paired and the contexts are those of the start.
KeyMismatchAnswered ==
  /\ kx.status = 404
  /\ kx.req.key_id # lan_config.lanip_key_id
  /\ ~kx.paired
  /\ app = AppEncryption(InitLanConfig)
  /\ dev = DevEncryption(InitLanConfig)

\* C11: an exchange whose ver or proto is not 1, or that carries a sec
\* field of any value, is answered 400 and builds no new keys.
KeyInvalidAnswered400 ==
  [][/\ kx'.n # kx.n
     /\ kx'.req.ver # 1 \/ kx'.req.proto # 1 \/ kx'.req.sec # "absent"
     => /\ kx'.status = 400
        /\ app' = app
        /\ dev' = dev]_vars

----------------------------------------------------------------------------
(* The framing of the inbound updates.                                     *)

\* C12: an update frame that fails to decrypt, whose signature differs or
\* whose plaintext is not JSON is answered 400, and the mirror and the
\* high-water mark stay as they were.
FramingFailureAnswered400 ==
  [][upd.pc = "idle" /\ upd'.pc = "idle" /\ upd'.frame # "ok" =>
       /\ upd'.status = 400
       /\ properties' = properties
       /\ updates_seq_no' = updates_seq_no]_vars

----------------------------------------------------------------------------
(* The routing of a write, the cascades and the read-only properties.      *)

\* The typed value of the value of a request.
RequestValue(name, value) ==
  IF IsEnum(get_type(name)) THEN value ELSE ParseInt(value)

\* C13: on a device whose mirror holds a register (any value but None), a
\* write of a property that has a control-value mapping enqueues exactly
\* one command, a set of t_control_value to the register the codec makes
\* of the write, and none that names the property; with no register it
\* enqueues one command that names the property.
MappedWriteRoutedByRegister ==
  [][caller.name = None /\ caller'.name \in {"t_power", "t_temp"} =>
       LET control == properties["t_control_value"]
           typed == RequestValue(caller'.name, caller'.value)
       IN /\ ~caller'.raised
          /\ caller'.op = "idle"
          /\ enq_count' = enq_count + 1
          /\ Len(commands_queue') = Len(commands_queue) + 1
          /\ \E i \in 1..Len(commands_queue') :
               /\ commands_queue'[i].command.id = enq_count
               /\ IF control # NoneReg
                  THEN /\ commands_queue'[i].command.name = "t_control_value"
                       /\ commands_queue'[i].command.value =
                            SetSubField(caller'.name,
                                        clear_up_change_flags(control), typed)
                  ELSE commands_queue'[i].command.name = caller'.name]_vars

\* The names the five commands of the fast heat/cold cascade are for.
HeatColdCascade ==
  <<"t_temp_heatcold", "t_fan_speed", "t_fan_mute", "t_sleep", "t_temp_eight">>

\* C14: a request to set t_temp_heatcold to ON enqueues exactly five
\* commands, for t_temp_heatcold, t_fan_speed, t_fan_mute, t_sleep and
\* t_temp_eight in this order, whatever the mirror holds: every call of the
\* request enqueues the next of the five, none raises, and the request
\* ends with the fifth.
HeatColdEnqueuesFive ==
  [][caller' # caller /\ caller'.name = "t_temp_heatcold" /\ caller'.value = "ON" =>
       /\ ~caller'.raised
       /\ enq_count' = enq_count + 1
       /\ enq_count' <= Len(HeatColdCascade)
       /\ \E i \in 1..Len(commands_queue') :
            /\ commands_queue'[i].command.id = enq_count
            /\ commands_queue'[i].asked.name = HeatColdCascade[enq_count']
       /\ caller'.op = "idle" <=> enq_count' = Len(HeatColdCascade)]_vars

\* C15: a request to set t_work_mode to OFF enqueues a write of t_power to
\* OFF and no write of t_work_mode; a request for another mode enqueues
\* the write of t_power to ON first and the write of the mode second, and
\* the command of the mode is never emitted before that of the power.
WorkModePowerFirst ==
  /\ caller.name = "t_work_mode" /\ caller.value = "OFF" /\ caller.op = "idle" =>
       /\ ~caller.raised
       /\ enq_count = 1
       /\ \A i \in 1..Len(commands_queue) :
            /\ commands_queue[i].asked.name = "t_power"
            /\ commands_queue[i].asked.value = "OFF"
  /\ caller.name = "t_work_mode" /\ caller.value # "OFF" =>
       /\ ~caller.raised
       /\ caller.op = "idle" => enq_count = 2
       /\ \A i \in 1..Len(commands_queue) :
            commands_queue[i].asked.name =
              (IF commands_queue[i].command.id = 0 THEN "t_power" ELSE "t_work_mode")
       /\ \A j \in 1..Len(frames) : frames[j].data.id = 1 =>
            \E i \in 1..(j - 1) : frames[i].data.id = 0

\* C16: a write of a read-only property is answered 400: queue_command
\* raises, and neither the queue nor the mirror changes.
ReadOnlyWriteRejected ==
  [][caller.name = None /\ caller'.name = "f_temp_in" =>
       /\ caller'.raised
       /\ caller'.status = 400
       /\ caller'.op = "idle"
       /\ Len(commands_queue') = Len(commands_queue)
       /\ enq_count' = enq_count
       /\ properties' = properties]_vars

\* The write of f_temp_in was answered 400 on a device without a register:
\* nothing is queued and the mirror holds the reading it held.
ReadOnlyWriteAnswered400 ==
  /\ caller.name = "f_temp_in"
  /\ caller.status = 400
  /\ properties["t_control_value"] = NoneReg
  /\ commands_queue = <<>>
  /\ enq_count = 0
  /\ properties["f_temp_in"] = 810

----------------------------------------------------------------------------
(* The notifier and the availability of a device.                          *)

\* C17: when the requests to a device keep failing, the device is offline
\* after at most 6 failed requests, and one 'offline' notification, no
\* more, is made in that streak of failures.
OfflineOnceAfterSixFailures ==
  \A d \in Devices :
    /\ ntf.configurations[d].offline <= 1
    /\ ntf.configurations[d].streak >= FAILURE_THRESHOLD + 1 =>
         /\ ~ntf.configurations[d].available
         /\ ntf.configurations[d].offline = 1

\* A device that was online has failed 6 requests and more in a row, some
\* refused and retried: it is offline and one notification was made.
OfflineAfterOnline ==
  \E d \in Devices :
    /\ ntf.configurations[d].streak = FAILURE_THRESHOLD + 1
    /\ ntf.configurations[d].failure_cnt = FAILURE_THRESHOLD + 1
    /\ ~ntf.configurations[d].available
    /\ ntf.configurations[d].offline = 1
    /\ ntf.pc = "retry" /\ ntf.entry = d

\* C18: a device that fails every request does not stop the others: every
\* registered device is sent a local_reg request again and again,
\* whatever becomes of the requests to the other devices.
EveryDevicePokedAgain ==
  \A d \in Devices : []<><<ntf.entry = d /\ NotifierRequest>>_vars

----------------------------------------------------------------------------
(* The devices of one server.                                              *)

----------------------------------------------------------------------------
(* The change flags of a register.                                         *)

\* C20: clear_up_change_flags zeros the bits 0, 5, 8, 12, 14, 16, 24, 26,
\* 28 and 30 of a register and leaves every other bit as it is; applied to
\* its result it changes nothing.
ClearUpZerosFlagsOnly ==
  /\ reg.pc \in {"cleared", "again"} =>
       /\ reg.cleared \cap {0, 5, 8, 12, 14, 16, 24, 26, 28, 30} = {}
       /\ \A b \in (0..31) \ {0, 5, 8, 12, 14, 16, 24, 26, 28, 30} :
            b \in reg.cleared <=> b \in reg.control
  /\ reg.pc = "again" => reg.again = reg.cleared

\* The register with the bits 0, 5, 6, 30 and 31 was cleared to the bits 6
\* and 31, and cleared again.
FlagsClearedValuesKept ==
  /\ reg.pc = "again"
  /\ reg.control = {0, 5, 6, 30, 31}
  /\ reg.cleared = {6, 31}
  /\ reg.again = {6, 31}

----------------------------------------------------------------------------
(* The codec of the register.                                              *)

\* C21: for every sub-field, register and value of the sub-field, the
\* decoder of the sub-field gives back the value its encoder wrote, the
\* temperature 81 included.
CodecRoundTrip ==
  reg.pc = "decoded" => reg.decoded = reg.value
\* C22: a frame read under the context it was made under gives back its
\* payload, and the signature is accepted exactly when the frame is read
\* under the context it was made under.
FramingRoundTrip ==
  wire.pc = "read" =>
    /\ (~wire.result.raised) <=> (wire.read = wire.made)
    /\ wire.read = wire.made => wire.result.data = wire.data

\* A payload that fills more than one block, made after an exchange, was
\* read back under the paired context.
FrameReadBack ==
  /\ wire.pc = "read"
  /\ kx.n > 0 /\ kx.status = 200
  /\ wire.made = app /\ wire.read = app
  /\ Len(wire.data) = MaxPayload
  /\ ~wire.result.raised

\* C23: every t_control_value command that a write of one sub-field
\* enqueues carries one set change flag, the one that the setter of the
\* written sub-field sets, whatever flags the register of the mirror held.
OneChangeFlagPerCommand ==
  \A i \in 1..Len(commands_queue) :
    LET c == commands_queue[i]
        name == c.asked.name
        some == CHOOSE v \in FieldValues(name) : TRUE
        flag == ChangeFlags \cap
                  (IF name = "t_work_mode" THEN set_work_mode_value({}, some)
                   ELSE SetSubField(name, {}, some))
    IN c.command.name = "t_control_value" /\ name \in ControlMapped =>
         c.command.value \cap ChangeFlags = flag

\* C24: once a register is written to the mirror, every named property of
\* a sub-field holds the value that the register decodes to.
RegisterDecodedToMirror ==
  reg.pc = "written" =>
    /\ properties["t_control_value"] = reg.control
    /\ \A i \in 1..Len(DecodedFields(reg.control)) :
         LET field == DecodedFields(reg.control)[i]
         IN field.ok => properties[field.name] = field.value

\* C25: while the mirror holds a register, the status snapshot (the named
\* properties of the mirror) reports for every sub-field the value that
\* the register decodes to.
RegisterAuthoritative ==
  LET control == properties["t_control_value"]
  IN Truthy(control) =>
       \A i \in 1..Len(DecodedFields(control)) :
         LET field == DecodedFields(control)[i]
         IN field.ok => properties[field.name] = field.value

\* C26: a notification of t_work_mode that is issued while the power is
\* OFF carries 'off', and every notification of t_power is followed at once
\* by one of t_work_mode, of 'off' for the power OFF.
WorkModeNotifiedOff ==
  \A i \in 1..Len(reg.notes) :
    LET note == reg.notes[i]
    IN /\ note.name = "t_work_mode" /\ note.power = "OFF" => note.value = "off"
       /\ note.name = "t_power" =>
            /\ i < Len(reg.notes)
            /\ reg.notes[i + 1].name = "t_work_mode"
            /\ note.value = "OFF" => reg.notes[i + 1].value = "off"

\* C27: a local_reg request is a POST to a device that is offline at that
\* moment and a PUT to one that is online, failed attempts or not.
PokeMethodByAvailability ==
  ntf.poke.method # None =>
    ntf.poke.method = (IF ntf.poke.online THEN "PUT" ELSE "POST")

\* C28: the loop sends no request to a device that is offline and whose
\* last_timestamp is less than the interval old, and last_timestamp is set
\* by an accepted request only.
OfflineFreshSkipped ==
  [][/\ LET config == ntf.configurations[ntf.entry]
        IN ntf.pc = "loop" /\ ~config.available /\ ~config.due =>
             ntf'.pc # "request"
     /\ \A d \in Devices :
          ntf.configurations[d].due /\ ~ntf'.configurations[d].due =>
            /\ ntf.pc = "request" /\ ntf.entry = d
            /\ ntf'.configurations[d].streak = 0]_vars

\* C29: once stop is called the loop exits, wherever it is.
StopLeadsToExit == (~ntf.running) ~> (ntf.pc = "exited")

WakeNeverLost ==
  /\ wake.pc = "wait" /\ wake.fresh => wake.ahead > 0
  /\ wake.extra <= 1

----------------------------------------------------------------------------
(* The way of one command, told apart from the others by the number of     *)
(* its put.                                                                *)

\* The places of the queue that hold command k.
Queued(k) == {i \in 1..Len(commands_queue) : commands_queue[i].command.id = k}
\* The handlers that took command k and have not ended.
Holders(k) ==
  {h \in Handlers : fetch[h].pc \in {"write", "updater"}
                    /\ fetch[h].item.command.id = k}
\* The replies that carry command k.
Sent(k) == {i \in 1..Len(frames) : frames[i].data.id = k}
\* The write of handler h's reply raises in this step.
WriteRaises(h) ==
  fetch[h].pc = "write" /\ fetch'[h].pc = "idle" /\ frames' = frames

\* C34: a command is in the queue or with one handler, never both and
\* never with two; at most one reply carries it; a handler runs its updater
\* only when the reply was written, and is done with the command then; an
\* entry comes into the queue by a put only, so that a command whose reply
\* could not be written is neither put back nor applied to the mirror.
CommandHandedOutOnce ==
  /\ [](\A k \in 0..(enq_count - 1) :
          /\ Cardinality(Queued(k)) + Cardinality(Holders(k)) <= 1
          /\ Cardinality(Sent(k)) <= 1
          /\ Sent(k) # {} =>
               Queued(k) = {} /\ \A h \in Holders(k) : fetch[h].pc = "updater"
          /\ \A h \in Holders(k) : fetch[h].pc = "updater" => Sent(k) # {})
  /\ [][/\ \A h \in Handlers :
             /\ WriteRaises(h) =>
                  commands_queue' = commands_queue /\ properties' = properties
             /\ UpdaterRuns(h) =>
                  fetch'[h] = FetchIdle /\ commands_queue' = commands_queue
        /\ \A k \in 0..(enq_count - 1) : Cardinality(Queued(k))' <= Cardinality(Queued(k))
        /\ properties' # properties => \E h \in Handlers : UpdaterRuns(h)]_vars

\* One handler has written the reply with the only command and is about
\* to run its updater; the other, in flight beside it, found the queue
\* empty.
CommandWithOneOfTwoFetches ==
  /\ commands_queue = <<>>
  /\ fetch[1].pc = "updater" /\ fetch[1].item.command.id = 0
  /\ fetch[2].pc = "write" /\ fetch[2].item.command.kind = "empty"
  /\ Sent(0) # {}

----------------------------------------------------------------------------
(* Two writes before a fetch.                                              *)

\* Both commands were fetched, their replies written and their updaters
\* run.
BothFetched ==
  /\ enq_count = 2 /\ commands_queue = <<>> /\ fetch[1].pc = "idle"
  /\ Len(frames) = 2
  /\ \A i \in 1..2 : frames[i].data.kind = "properties"

\* C35: when the temperature and then the fan speed were written before
\* the appliance fetched, and both commands were fetched and their
\* updaters run, the mirror holds the temperature of the first write and
\* the fan speed of the second.
MirrorReflectsBothWrites ==
  BothFetched /\ caller.name = "t_fan_speed" =>
    /\ properties["t_temp"] = 22
    /\ properties["t_fan_speed"] = caller.value

----------------------------------------------------------------------------
(* A request that fails.                                                   *)

\* C36: when queue_command raised and /hisense/command answered 400, the
\* request has put nothing in the queue.
RejectedCommandEnqueuesNothing ==
  caller.status = 400 => enq_count = 0

----------------------------------------------------------------------------
(* A key exchange and the state of the device.                             *)

\* A key exchange is answered 200 in this step.
Paired == kx'.n = kx.n + 1 /\ kx'.status = 200

\* C37: a key exchange that is answered 200 leaves commands_seq_no,
\* updates_seq_no, the queue, the mirror and the availability as they
\* were, and the key and key id of the configuration too; the command that
\* was queued is still fetched after it, under the next seq_no.
KeyExchangeKeepsDeviceState ==
  [][Paired =>
       /\ UNCHANGED <<commands_seq_no, updates_seq_no, commands_queue,
                      properties, next_command_id, ntf>>
       /\ lan_config'.lanip_key = lan_config.lanip_key
       /\ lan_config'.lanip_key_id = lan_config.lanip_key_id
       /\ app' = AppEncryption(lan_config') /\ dev' = DevEncryption(lan_config')]_vars

\* The appliance has fetched once, paired again with new values while a
\* command was queued, and then fetched the command under seq_no 1.
CommandFetchedAfterRepairing ==
  /\ kx.status = 200 /\ kx.req.random_1 = "A1"
  /\ app = AppEncryption(lan_config) /\ app # AppEncryption(InitLanConfig)
  /\ Len(frames) = 2
  /\ frames[1].data.kind = "empty" /\ frames[1].seq_no = 0
  /\ frames[2].data.kind = "properties" /\ frames[2].seq_no = 1

\* A key exchange is answered 400 or 404 in this step.
Rejected == kx'.n = kx.n + 1 /\ kx'.status \in {400, 404}

\* C38: a key exchange that is answered 400 or 404 leaves the stored
\* random_1, time_1, random_2 and time_2 as they were, so that contexts
\* built from the stored values after it are those built before it.
RejectedExchangeStoresNothing ==
  [][Rejected =>
       /\ lan_config' = lan_config
       /\ AppEncryption(lan_config') = AppEncryption(lan_config)
       /\ DevEncryption(lan_config') = DevEncryption(lan_config)]_vars

----------------------------------------------------------------------------
(* The queue over a run without end.                                       *)

\* An entry with place k is in the queue.
InFeed(k) == \E i \in 1..Len(feed.queue) : feed.queue[i].command.id = k

\* C39: while the appliance goes on fetching, every entry of the queue,
\* of priority 10 or 100, leaves it in the end, whatever is put after it.
EveryCommandEmitted ==
  \A k \in 1..MaxDepth : InFeed(k) ~> ~InFeed(k)

----------------------------------------------------------------------------
(* The bits an encoder writes.                                             *)

\* The change flag and the value bits of a sub-field: the bits that the
\* mask of its encoder clears.
SubFieldBits(name) ==
  CASE name = "t_fan_speed" -> 0..4
    [] name = "t_power" -> 5..6
    [] name = "t_work_mode" -> 8..11
    [] name = "t_temp_heatcold" -> 12..13
    [] name = "t_eco" -> 14..15
    [] name = "t_temp" -> 16..22
    [] name = "t_fan_power" -> 24..25
    [] name = "t_fan_leftright" -> 26..27
    [] name = "t_fan_mute" -> 28..29
    [] name = "t_temptype" -> 30..31
    [] OTHER -> {}

\* C40: the register an encoder returns differs from the one it was given
\* in the bits of its own sub-field only, has the change flag of the
\* sub-field set, and has no bit above bit 31, for every register and
\* every value, the temperatures of 64 and more included.
EncodeWritesOwnBitsOnly ==
  reg.pc \in {"encoded", "decoded"} =>
    /\ reg.encoded \ SubFieldBits(reg.name) = reg.control \ SubFieldBits(reg.name)
    /\ \E flag \in ChangeFlags \cap SubFieldBits(reg.name) : flag \in reg.encoded
    /\ reg.encoded \subseteq 0..31

====
